---------------------------- MODULE Spec2Model ----------------------------
(***************************************************************************)
(* Order / cart pricing and lifecycle engine of the POS application.       *)
(*                                                                         *)
(* The store (StoreProvider, src/unnamed/part_002) keeps the in-memory     *)
(* menu and orders and talks to one of two backends: local storage         *)
(* (isRealtime = FALSE) or the remote relational store with change         *)
(* notifications (isRealtime = TRUE).  The cashier screen                  *)
(* (src/src/components/CashierView.tsx) builds a cart and creates orders;  *)
(* the order detail panel (src/unnamed/part_007) and the admin dashboard   *)
(* (src/unnamed/part_008) drive the order life cycle and the edit draft.   *)
(***************************************************************************)
EXTENDS Integers, Sequences, FiniteSets, TLC

VARIABLES
    isRealtime,       \* StoreProvider.isRealtime
    menu,             \* StoreProvider.menu: menu item id -> menu item
    orders,           \* StoreProvider.orders: newest first
    nextId,           \* source of generateId() / the backend's uuid default
    nEdits,           \* edit saves issued so far (bounds the run)
    dbOrders,         \* backend table orders, newest first (order by created_at desc)
    dbOrderItems,     \* backend table order_items (the line-item projection)
    dbMenu,           \* backend table menu_items
    orderNotifs,      \* channel orders_changes: published, not yet delivered
    menuNotifs,       \* channel menu_changes: published, not yet delivered
    inflight,         \* the store operation awaiting its backend reply
    activeView,       \* App.activeView
    cart,             \* CashierView.cart
    paymentStatus,    \* CashierView.paymentStatus
    globalNote,       \* CashierView.globalNote
    selectedOrderId,  \* AdminDashboard.selectedOrderId (0: none)
    isEditing,        \* OrderDetailPanel.isEditing
    isSaving,         \* OrderDetailPanel.isSaving
    editedItems,      \* OrderDetailPanel.editedItems
    editedNote,       \* OrderDetailPanel.editedNote
    peer,             \* a second StoreProvider on the same backend (another browser)
    page,             \* the page load: isSupabaseConfigured, the effects run so far,
                      \* and localStorage as they left it
    last              \* the last store operation and its outcome (history)

storeVars == <<isRealtime, page, menu, orders, nextId, nEdits>>
dbVars    == <<dbOrders, dbOrderItems, dbMenu, orderNotifs, peer, menuNotifs, inflight>>
cartVars  == <<activeView, cart, paymentStatus, globalNote>>
panelVars == <<selectedOrderId, isEditing, isSaving, editedItems, editedNote>>
vars      == <<isRealtime, page, menu, orders, nextId, nEdits, dbOrders, dbOrderItems, dbMenu,
               orderNotifs, peer, menuNotifs, inflight, activeView, cart, paymentStatus,
               globalNote, selectedOrderId, isEditing, isSaving, editedItems, editedNote,
               last>>

---------------------------------------------------------------------------
(* Bounds of the model *)

MaxOrders == 1      \* orders created in one run
MaxQty    == 2      \* largest quantity of one line
MaxEdits  == 1      \* edit saves issued in one run
MaxNotifs == 1      \* undelivered order notifications
MaxStockNotifs == 2 \* undelivered stock notifications
MaxPricedQty == 6   \* largest quantity of one line of a cart that is only priced

---------------------------------------------------------------------------
(* Data *)

\* An optional number (stock?: number): <<>> is undefined, <<n>> is n.
Undefined == <<>>
Some(n)   == <<n>>
Val(opt)  == opt[1]
NoReq     == [op |-> "none"]

MenuIds == {"1", "2"}
Notes   == {"", "n"}

NoBundle == [enabled |-> FALSE, buyQuantity |-> 0, bundlePrice |-> 0]

\* Espresso and Iced Latte of DEFAULT_MENU.
DEFAULT_MENU ==
    [m \in MenuIds |->
        IF m = "1"
        THEN [id |-> "1", basePrice |-> 25000, bundle |-> NoBundle, stock |-> Some(50)]
        ELSE [id |-> "2", basePrice |-> 35000,
              bundle |-> [enabled |-> TRUE, buyQuantity |-> 2, bundlePrice |-> 60000],
              stock |-> Some(30)]]

\* The same menu after Espresso was saved through the item form with the
\* stock field left empty.
UntrackedMenu == [DEFAULT_MENU EXCEPT !["1"].stock = Undefined]

\* The menus a session starts from.
SavedMenus == {DEFAULT_MENU, UntrackedMenu}

\* Croissant of DEFAULT_MENU: buy 3 for 50000.
Croissant ==
    [id |-> "3", basePrice |-> 20000,
     bundle |-> [enabled |-> TRUE, buyQuantity |-> 3, bundlePrice |-> 50000],
     stock |-> Some(20)]

\* A menu of Espresso (no bundle) and Croissant (bundle).
PricingMenu ==
    [m \in {"1", "3"} |-> IF m = "1" THEN DEFAULT_MENU["1"] ELSE Croissant]

\* A menu as rows of the backend table menu_items.
MenuRows(m) ==
    [k \in DOMAIN m |->
        [id |-> m[k].id, base_price |-> m[k].basePrice,
         bundle_config |-> m[k].bundle, stock |-> m[k].stock]]

\* Boundary conversion between a backend row and the in-memory menu item.
mapDbMenuItem(dbItem) ==
    [id |-> dbItem.id, basePrice |-> dbItem.base_price,
     bundle |-> dbItem.bundle_config, stock |-> dbItem.stock]

---------------------------------------------------------------------------
(* Sequence helpers (Array.prototype.find / map / filter) *)

Find(items, id) ==
    IF \E i \in 1..Len(items) : items[i].id = id
    THEN CHOOSE i \in 1..Len(items) :
            /\ items[i].id = id
            /\ \A j \in 1..(i - 1) : items[j].id # id
    ELSE 0

RECURSIVE FilterOut(_, _)
FilterOut(items, id) ==
    IF items = <<>> THEN <<>>
    ELSE IF Head(items).id = id THEN FilterOut(Tail(items), id)
         ELSE <<Head(items)>> \o FilterOut(Tail(items), id)

RECURSIVE FilterPositive(_)
FilterPositive(items) ==
    IF items = <<>> THEN <<>>
    ELSE IF Head(items).quantity > 0
         THEN <<Head(items)>> \o FilterPositive(Tail(items))
         ELSE FilterPositive(Tail(items))

QtyOf(items, id) ==
    IF Find(items, id) = 0 THEN 0 ELSE items[Find(items, id)].quantity

PreparedCount(items) == Cardinality({i \in 1..Len(items) : items[i].isPrepared})

Max(a, b) == IF a >= b THEN a ELSE b

---------------------------------------------------------------------------
(* Pricing engine *)

calculateItemTotal(item, quantity) ==
    IF item.bundle.enabled
    THEN (quantity \div item.bundle.buyQuantity) * item.bundle.bundlePrice
         + (quantity % item.bundle.buyQuantity) * item.basePrice
    ELSE item.basePrice * quantity

RECURSIVE ItemsTotal(_)
ItemsTotal(items) ==
    IF items = <<>> THEN 0
    ELSE calculateItemTotal(Head(items), Head(items).quantity) + ItemsTotal(Tail(items))

\* The cart priced without its bundles, as the subtotal is.
RECURSIVE ItemsSubtotal(_)
ItemsSubtotal(items) ==
    IF items = <<>> THEN 0
    ELSE Head(items).basePrice * Head(items).quantity + ItemsSubtotal(Tail(items))

cartSubtotal == ItemsSubtotal(cart)

cartTotal == ItemsTotal(cart)

editedTotal == ItemsTotal(editedItems)


---------------------------------------------------------------------------
(* Orders *)

HasOrder(os, id) == \E i \in 1..Len(os) : os[i].id = id

OrderOf(os, id) == os[Find(os, id)]

\* prev.map(order => order.id === id ? new : order), new built from the order
\* of that id
MapOrders(os, id, new) ==
    [i \in 1..Len(os) |-> IF os[i].id = id THEN new ELSE os[i]]

\* Ids of the orders created in a run, and of the order saved before it.
SavedOrderId == MaxOrders + 1

OrderIds == 1..SavedOrderId

\* Boundary conversion between a backend row and the in-memory order.
mapDbOrder(dbOrder) ==
    [id            |-> dbOrder.id,
     items         |-> dbOrder.items,
     total         |-> dbOrder.total,
     status        |-> dbOrder.status,
     paymentStatus |-> dbOrder.payment_status,
     note          |-> dbOrder.note,
     editHistory   |-> dbOrder.edit_history]

MapDbOrders(rows) == [i \in 1..Len(rows) |-> mapDbOrder(rows[i])]

MapDbRows(rows, id, new) ==
    [i \in 1..Len(rows) |-> IF rows[i].id = id THEN new ELSE rows[i]]

RECURSIVE DeleteRows(_, _)
DeleteRows(rows, id) ==
    IF rows = <<>> THEN <<>>
    ELSE IF Head(rows).id = id THEN DeleteRows(Tail(rows), id)
         ELSE <<Head(rows)>> \o DeleteRows(Tail(rows), id)

RECURSIVE DeleteOrderItems(_, _)
DeleteOrderItems(rows, orderId) ==
    IF rows = <<>> THEN <<>>
    ELSE IF Head(rows).order_id = orderId THEN DeleteOrderItems(Tail(rows), orderId)
         ELSE <<Head(rows)>> \o DeleteOrderItems(Tail(rows), orderId)

\* One projection row per line item (itemsToInsert).
itemsToInsert(orderId, items) ==
    [i \in 1..Len(items) |->
        [order_id     |-> orderId,
         menu_item_id |-> items[i].id,
         quantity     |-> items[i].quantity,
         is_prepared  |-> items[i].isPrepared]]

---------------------------------------------------------------------------
(* createOrder *)

\* createOrder's newOrderLocal: every line starts unprepared, the fulfilment
\* status is seeded from the payment status.
newOrderLocal(orderData, id) ==
    [id            |-> id,
     items         |-> [i \in 1..Len(orderData.items) |->
                          [id         |-> orderData.items[i].id,
                           quantity   |-> orderData.items[i].quantity,
                           basePrice  |-> orderData.items[i].basePrice,
                           bundle     |-> orderData.items[i].bundle,
                           isPrepared |-> FALSE]],
     total         |-> orderData.total,
     status        |-> IF orderData.paymentStatus = "Paid" THEN "Paid" ELSE "Pending",
     paymentStatus |-> orderData.paymentStatus,
     note          |-> orderData.note,
     editHistory   |-> <<>>]

\* The row the backend stores for createOrder's dbOrder: edit_history is not
\* sent and takes the column default.
dbOrderRow(order) ==
    [id             |-> order.id,
     items          |-> order.items,
     total          |-> order.total,
     status         |-> order.status,
     payment_status |-> order.paymentStatus,
     note           |-> order.note,
     edit_history   |-> <<>>]

\* The stock lowered by one for each ordered line, whatever its quantity.
createStockLocalByLine(m, items) ==
    [k \in DOMAIN m |->
        IF Find(items, k) # 0 /\ m[k].stock # Undefined
        THEN [m[k] EXCEPT !.stock = Some(Val(m[k].stock) - 1)]
        ELSE m[k]]

\* Local branch: stock of every ordered, stock-tracking menu item.
createStockLocal(m, items) ==
    [k \in DOMAIN m |->
        IF Find(items, k) # 0 /\ m[k].stock # Undefined
        THEN [m[k] EXCEPT !.stock = Some(Val(m[k].stock) - items[Find(items, k)].quantity)]
        ELSE m[k]]

\* Remote branch: the stock values written, from the menu the handler sees.
\* A set of <<menu item id, stock value>>.
createStockWrites(m, items) ==
    {<<items[i].id, Val(m[items[i].id].stock) - items[i].quantity>> :
        i \in {j \in 1..Len(items) :
                 items[j].id \in DOMAIN m /\ m[items[j].id].stock # Undefined}}

---------------------------------------------------------------------------
(* updateOrder *)

\* { ...order, ...updates }
mergeUpdates(order, updates) ==
    [order EXCEPT !.items = updates.items, !.total = updates.total,
                  !.status = updates.status, !.note = updates.note,
                  !.editHistory = updates.editHistory]

\* dbUpdates: edit_history is not written.
applyDbUpdates(row, updates) ==
    [row EXCEPT !.items = updates.items, !.total = updates.total,
                !.status = updates.status, !.note = updates.note]

\* Local stock diff of one menu item.
localDiff(oldItems, newItems, k) ==
    LET o == Find(oldItems, k)
        n == Find(newItems, k)
    IN  IF o # 0 /\ n = 0 THEN oldItems[o].quantity
        ELSE IF o # 0 /\ n # 0 THEN oldItems[o].quantity - newItems[n].quantity
        ELSE IF o = 0 /\ n # 0 THEN 0 - newItems[n].quantity
        ELSE 0

\* updateOrder's local stock update with the diff taken against the order
\* as it is after the edit was merged (oldOrder read after setOrders).
updateStockLocalAfterMerge(m, oldItems, newItems) ==
    [k \in DOMAIN m |->
        IF localDiff(newItems, newItems, k) # 0 /\ m[k].stock # Undefined
        THEN [m[k] EXCEPT !.stock = Some(Val(m[k].stock)
                                           + localDiff(newItems, newItems, k))]
        ELSE m[k]]

updateStockLocal(m, oldItems, newItems) ==
    [k \in DOMAIN m |->
        IF localDiff(oldItems, newItems, k) # 0 /\ m[k].stock # Undefined
        THEN [m[k] EXCEPT !.stock = Some(Val(m[k].stock)
                                           + localDiff(oldItems, newItems, k))]
        ELSE m[k]]

\* Remote stock diff: the two forEach passes over the old and the new items.
RECURSIVE diffRemoved(_, _, _)
diffRemoved(oldItems, newItems, k) ==
    IF oldItems = <<>> THEN 0
    ELSE LET oldItem == Head(oldItems)
             n == Find(newItems, oldItem.id)
         IN  (IF oldItem.id # k THEN 0
              ELSE IF n = 0 THEN oldItem.quantity
              ELSE IF newItems[n].quantity < oldItem.quantity
                   THEN oldItem.quantity - newItems[n].quantity
              ELSE 0)
             + diffRemoved(Tail(oldItems), newItems, k)

\* The second pass without the case of an item the edit adds to the order.
RECURSIVE diffAddedOnlyKnown(_, _, _)
diffAddedOnlyKnown(oldItems, newItems, k) ==
    IF newItems = <<>> THEN 0
    ELSE LET newItem == Head(newItems)
             o == Find(oldItems, newItem.id)
         IN  (IF newItem.id # k THEN 0
              ELSE IF o = 0 THEN 0
              ELSE IF newItem.quantity > oldItems[o].quantity
                   THEN 0 - (newItem.quantity - oldItems[o].quantity)
              ELSE 0)
             + diffAddedOnlyKnown(oldItems, Tail(newItems), k)

RECURSIVE diffAdded(_, _, _)
diffAdded(oldItems, newItems, k) ==
    IF newItems = <<>> THEN 0
    ELSE LET newItem == Head(newItems)
             o == Find(oldItems, newItem.id)
         IN  (IF newItem.id # k THEN 0
              ELSE IF o = 0 THEN 0 - newItem.quantity
              ELSE IF newItem.quantity > oldItems[o].quantity
                   THEN 0 - (newItem.quantity - oldItems[o].quantity)
              ELSE 0)
             + diffAdded(oldItems, Tail(newItems), k)

remoteDiff(oldItems, newItems, k) ==
    diffRemoved(oldItems, newItems, k) + diffAdded(oldItems, newItems, k)

\* The stock values written by the remote branch, from the menu the handler
\* sees: a set of <<menu item id, stock value>>.
updateStockWrites(m, oldItems, newItems) ==
    {<<k, Val(m[k].stock) + remoteDiff(oldItems, newItems, k)>> :
        k \in {x \in DOMAIN m : /\ remoteDiff(oldItems, newItems, x) # 0
                                /\ m[x].stock # Undefined}}

---------------------------------------------------------------------------
(* toggleOrderItemPrepared and the status derivation *)

toggleItems(items, itemId) ==
    [i \in 1..Len(items) |->
        IF items[i].id = itemId
        THEN [items[i] EXCEPT !.isPrepared = ~items[i].isPrepared]
        ELSE items[i]]

\* newStatus computed only while nothing is prepared or everything is: a
\* Completed order whose item is unprepared again keeps its status.
toggleStatusStuck(order, updatedItems) ==
    IF order.status # "Cancelled" /\ order.status # "Picked Up"
    THEN IF PreparedCount(updatedItems) = 0 THEN "Pending"
         ELSE IF PreparedCount(updatedItems) = Len(updatedItems) THEN "Completed"
         ELSE IF order.status = "Completed" THEN "Completed"
         ELSE "Preparing"
    ELSE order.status

\* newStatus computed without the guard on the order's current status.
toggleStatusUnguarded(order, updatedItems) ==
    IF PreparedCount(updatedItems) = 0 THEN "Pending"
    ELSE IF PreparedCount(updatedItems) = Len(updatedItems) THEN "Completed"
    ELSE "Preparing"

\* toggleOrderItemPrepared: newStatus
toggleStatus(order, updatedItems) ==
    IF order.status # "Cancelled" /\ order.status # "Picked Up"
    THEN IF PreparedCount(updatedItems) = 0 THEN "Pending"
         ELSE IF PreparedCount(updatedItems) = Len(updatedItems) THEN "Completed"
         ELSE "Preparing"
    ELSE order.status

\* handleSave: newStatus
saveStatus(order, items) ==
    IF order.status # "Cancelled" /\ order.status # "Picked Up"
    THEN IF PreparedCount(items) = 0 THEN "Pending"
         ELSE IF PreparedCount(items) = Len(items) THEN "Completed"
         ELSE "Preparing"
    ELSE order.status

\* handleSave: the number of entries of changes[]
saveChanges(order, items, note) ==
    Cardinality({i \in 1..Len(order.items) : Find(items, order.items[i].id) = 0})
    + Cardinality({i \in 1..Len(items) :
                     \/ Find(order.items, items[i].id) = 0
                     \/ order.items[Find(order.items, items[i].id)].quantity
                            # items[i].quantity})
    + (IF order.note # note THEN 1 ELSE 0)

isEditBlocked(order) ==
    (order.status = "Completed" \/ order.status = "Picked Up")
    /\ order.paymentStatus = "Paid"


---------------------------------------------------------------------------
(* Store operations (StoreProvider).  In local mode an operation is one    *)
(* step; in remote mode the step below is the part before the first await  *)
(* and BackendReply is the rest of the handler.                            *)

\* The record kept in last; stockWrites is the set of stock writes the step
\* issued to the backend (whether or not each of them succeeded).
Op(op, id, step, res) ==
    [op |-> op, id |-> id, step |-> step, res |-> res, stockWrites |-> {}]

Request(op, id, data, old, panel) ==
    [op |-> op, id |-> id, data |-> data, old |-> old, seen |-> menu, panel |-> panel]

NoOrder == [id |-> 0]

\* No second client is connected.
NoPeer == [online |-> FALSE, orders |-> <<>>, notifs |-> <<>>, inflight |-> NoReq]

\* The channel orders_changes publishes every change to each subscribed
\* client: the second client's copy of a notification.
PeerNotify(payload) ==
    IF peer.online THEN [peer EXCEPT !.notifs = Append(peer.notifs, payload)]
    ELSE peer

PeerHasRoom == peer.online => Len(peer.notifs) < MaxNotifs

Idle == inflight = NoReq

createOrder(orderData) ==
    /\ IF isRealtime
       THEN /\ inflight' = Request("createOrder", 0, newOrderLocal(orderData, 0),
                                   NoOrder, FALSE)
            /\ last' = Op("createOrder", 0, "call", "pending")
            /\ UNCHANGED <<menu, orders, nextId>>
       ELSE /\ menu' = createStockLocal(menu, orderData.items)
            /\ orders' = <<newOrderLocal(orderData, nextId)>> \o orders
            /\ nextId' = nextId + 1
            /\ last' = Op("createOrder", nextId, "call", "ok")
            /\ UNCHANGED inflight
    /\ UNCHANGED <<isRealtime, page, nEdits, dbOrders, dbOrderItems, dbMenu, orderNotifs, peer, menuNotifs>>

\* updateOrderStatus that issues the write and leaves the in-memory order to
\* the change notification.
updateOrderStatusNotOptimistic(id, status) ==
    /\ IF isRealtime
       THEN /\ inflight' = Request("updateOrderStatus", id, status, NoOrder, FALSE)
            /\ last' = Op("updateOrderStatus", id, "call", "pending")
            /\ UNCHANGED orders
       ELSE /\ orders' = MapOrders(orders, id, [OrderOf(orders, id) EXCEPT !.status = status])
            /\ last' = Op("updateOrderStatus", id, "call", "ok")
            /\ UNCHANGED inflight
    /\ UNCHANGED <<isRealtime, page, nEdits, menu, nextId, dbOrders, dbOrderItems, dbMenu,
                   orderNotifs, peer, menuNotifs>>

updateOrderStatus(id, status) ==
    /\ orders' = MapOrders(orders, id, [OrderOf(orders, id) EXCEPT !.status = status])
    /\ IF isRealtime
       THEN /\ inflight' = Request("updateOrderStatus", id, status, NoOrder, FALSE)
            /\ last' = Op("updateOrderStatus", id, "call", "pending")
       ELSE /\ last' = Op("updateOrderStatus", id, "call", "ok")
            /\ UNCHANGED inflight
    /\ UNCHANGED <<isRealtime, page, nEdits, menu, nextId, dbOrders, dbOrderItems, dbMenu,
                   orderNotifs, peer, menuNotifs>>

updateOrderPaymentStatus(id, payment) ==
    /\ orders' = MapOrders(orders, id,
                           [OrderOf(orders, id) EXCEPT !.paymentStatus = payment])
    /\ IF isRealtime
       THEN /\ inflight' = Request("updateOrderPaymentStatus", id, payment,
                                   NoOrder, FALSE)
            /\ last' = Op("updateOrderPaymentStatus", id, "call", "pending")
       ELSE /\ last' = Op("updateOrderPaymentStatus", id, "call", "ok")
            /\ UNCHANGED inflight
    /\ UNCHANGED <<isRealtime, page, nEdits, menu, nextId, dbOrders, dbOrderItems, dbMenu,
                   orderNotifs, peer, menuNotifs>>

\* updates = [items, total, status, note, editHistory], as handleSave passes.
updateOrder(id, updates, panel) ==
    LET oldOrder == IF HasOrder(orders, id) THEN OrderOf(orders, id) ELSE NoOrder
    IN  /\ nEdits < MaxEdits
        /\ nEdits' = nEdits + 1
        /\ orders' = MapOrders(orders, id, mergeUpdates(OrderOf(orders, id), updates))
        /\ IF isRealtime
           THEN /\ inflight' = Request("updateOrder", id, updates, oldOrder, panel)
                /\ last' = Op("updateOrder", id, "call", "pending")
                /\ UNCHANGED menu
           ELSE /\ menu' = IF oldOrder # NoOrder
                           THEN updateStockLocal(menu, oldOrder.items, updates.items)
                           ELSE menu
                /\ last' = Op("updateOrder", id, "call", "ok")
                /\ UNCHANGED inflight
        /\ UNCHANGED <<isRealtime, page, nextId, dbOrders, dbOrderItems, dbMenu,
                       orderNotifs, peer, menuNotifs>>

\* toggleOrderItemPrepared with an optimistic update that sets the items and
\* leaves the status to the backend write.
toggleOrderItemPreparedItemsFirst(orderId, itemId) ==
    IF ~HasOrder(orders, orderId)
    THEN /\ last' = Op("toggleOrderItemPrepared", orderId, "call", "notfound")
         /\ UNCHANGED <<storeVars, dbVars>>
    ELSE LET order == OrderOf(orders, orderId)
             updatedItems == toggleItems(order.items, itemId)
             newStatus == toggleStatus(order, updatedItems)
         IN  /\ orders' = MapOrders(orders, orderId,
                    [OrderOf(orders, orderId) EXCEPT !.items = updatedItems])
             /\ IF isRealtime
                THEN /\ inflight' = Request("toggleOrderItemPrepared", orderId,
                                            [items |-> updatedItems, status |-> newStatus],
                                            NoOrder, FALSE)
                     /\ last' = Op("toggleOrderItemPrepared", orderId, "call", "pending")
                ELSE /\ last' = Op("toggleOrderItemPrepared", orderId, "call", "ok")
                     /\ UNCHANGED inflight
             /\ UNCHANGED <<isRealtime, page, nEdits, menu, nextId, dbOrders, dbOrderItems, dbMenu,
                            orderNotifs, peer, menuNotifs>>

toggleOrderItemPrepared(orderId, itemId) ==
    IF ~HasOrder(orders, orderId)
    THEN /\ last' = Op("toggleOrderItemPrepared", orderId, "call", "notfound")
         /\ UNCHANGED <<storeVars, dbVars>>
    ELSE LET order == OrderOf(orders, orderId)
             updatedItems == toggleItems(order.items, itemId)
             newStatus == toggleStatus(order, updatedItems)
         IN  /\ orders' = MapOrders(orders, orderId,
                    [OrderOf(orders, orderId) EXCEPT !.items = updatedItems,
                                                     !.status = newStatus])
             /\ IF isRealtime
                THEN /\ inflight' = Request("toggleOrderItemPrepared", orderId,
                                            [items |-> updatedItems, status |-> newStatus],
                                            NoOrder, FALSE)
                     /\ last' = Op("toggleOrderItemPrepared", orderId, "call", "pending")
                ELSE /\ last' = Op("toggleOrderItemPrepared", orderId, "call", "ok")
                     /\ UNCHANGED inflight
             /\ UNCHANGED <<isRealtime, page, nEdits, menu, nextId, dbOrders, dbOrderItems, dbMenu,
                            orderNotifs, peer, menuNotifs>>

deleteOrder(id) ==
    /\ IF isRealtime
       THEN /\ inflight' = Request("deleteOrder", id, 0, NoOrder, FALSE)
            /\ last' = Op("deleteOrder", id, "call", "pending")
            /\ UNCHANGED orders
       ELSE /\ orders' = DeleteRows(orders, id)
            /\ last' = Op("deleteOrder", id, "call", "ok")
            /\ UNCHANGED inflight
    /\ UNCHANGED <<isRealtime, page, nEdits, menu, nextId, dbOrders, dbOrderItems, dbMenu,
                   orderNotifs, peer, menuNotifs>>


\* The id generateId() / the backend gives to an added menu item.
NewMenuId == "3"

\* What the item form (ItemModal) hands to onSave.
ItemForms ==
    {[basePrice |-> 30000, bundle |-> NoBundle, stock |-> Undefined],
     [basePrice |-> Croissant.basePrice, bundle |-> Croissant.bundle,
      stock |-> Croissant.stock]}

\* { ...item, id } / { ...item, ...updates }
menuItemOf(id, item) ==
    [id |-> id, basePrice |-> item.basePrice, bundle |-> item.bundle,
     stock |-> item.stock]

\* addMenuItem's dbItem as a row
dbItemRow(id, item) ==
    [id |-> id, base_price |-> item.basePrice, bundle_config |-> item.bundle,
     stock |-> item.stock]

\* updateMenuItem's dbUpdates applied to a row: a price of 0 and an undefined
\* stock are not sent.
applyMenuDbUpdates(row, updates) ==
    [row EXCEPT !.base_price = IF updates.basePrice # 0 THEN updates.basePrice
                               ELSE row.base_price,
                !.bundle_config = updates.bundle,
                !.stock = IF updates.stock # Undefined THEN updates.stock
                          ELSE row.stock]

\* What a menu operation leaves alone in either mode.
MenuOpFrame ==
    UNCHANGED <<isRealtime, page, nEdits, orders, nextId, dbOrders, dbOrderItems, dbMenu,
                orderNotifs, peer, menuNotifs>>

addMenuItem(item) ==
    /\ IF isRealtime
       THEN /\ inflight' = Request("addMenuItem", NewMenuId, item, NoOrder, FALSE)
            /\ last' = Op("addMenuItem", 0, "call", "pending")
            /\ UNCHANGED menu
       ELSE /\ menu' = [k \in DOMAIN menu \cup {NewMenuId} |->
                          IF k = NewMenuId THEN menuItemOf(NewMenuId, item)
                          ELSE menu[k]]
            /\ last' = Op("addMenuItem", 0, "call", "ok")
            /\ UNCHANGED inflight
    /\ MenuOpFrame

updateMenuItem(id, updates) ==
    /\ IF isRealtime
       THEN /\ inflight' = Request("updateMenuItem", id, updates, NoOrder, FALSE)
            /\ last' = Op("updateMenuItem", 0, "call", "pending")
            /\ UNCHANGED menu
       ELSE /\ menu' = [k \in DOMAIN menu |->
                          IF k = id THEN menuItemOf(id, updates) ELSE menu[k]]
            /\ last' = Op("updateMenuItem", 0, "call", "ok")
            /\ UNCHANGED inflight
    /\ MenuOpFrame

\* deleteMenuItem that also drops the item's lines from the stored orders.
deleteMenuItemWithLines(id) ==
    /\ IF isRealtime
       THEN /\ inflight' = Request("deleteMenuItem", id, 0, NoOrder, FALSE)
            /\ last' = Op("deleteMenuItem", 0, "call", "pending")
            /\ UNCHANGED menu
       ELSE /\ menu' = [k \in DOMAIN menu \ {id} |-> menu[k]]
            /\ last' = Op("deleteMenuItem", 0, "call", "ok")
            /\ UNCHANGED inflight
    /\ orders' = [i \in 1..Len(orders) |->
                    [orders[i] EXCEPT !.items = FilterOut(orders[i].items, id)]]
    /\ UNCHANGED <<isRealtime, page, nEdits, nextId, dbOrders, dbOrderItems, dbMenu,
                   orderNotifs, peer, menuNotifs>>

deleteMenuItem(id) ==
    /\ IF isRealtime
       THEN /\ inflight' = Request("deleteMenuItem", id, 0, NoOrder, FALSE)
            /\ last' = Op("deleteMenuItem", 0, "call", "pending")
            /\ UNCHANGED menu
       ELSE /\ menu' = [k \in DOMAIN menu \ {id} |-> menu[k]]
            /\ last' = Op("deleteMenuItem", 0, "call", "ok")
            /\ UNCHANGED inflight
    /\ MenuOpFrame


---------------------------------------------------------------------------
(* Cashier screen (CashierView) *)

UiStep == last' = Op("ui", 0, "call", "none")

\* The panel's component state when it is (re)mounted.
PanelFresh(id) ==
    /\ selectedOrderId' = id
    /\ isEditing' = FALSE
    /\ isSaving' = FALSE
    /\ editedItems' = <<>>
    /\ editedNote' = ""

\* A reply that arrives after the panel was unmounted sets no panel state.
DetachPanel ==
    inflight' = IF inflight # NoReq /\ inflight.panel
                THEN [inflight EXCEPT !.panel = FALSE]
                ELSE inflight

cartLine(menuItem) ==
    [id |-> menuItem.id, quantity |-> 1, basePrice |-> menuItem.basePrice,
     bundle |-> menuItem.bundle]

\* addToCart that appends a line whether or not the item is in the cart.
addToCartAppends(prev, item) == Append(prev, cartLine(item))

addToCart(prev, item) ==
    IF Find(prev, item.id) # 0
    THEN [i \in 1..Len(prev) |->
            IF prev[i].id = item.id
            THEN [prev[i] EXCEPT !.quantity = prev[i].quantity + 1]
            ELSE prev[i]]
    ELSE Append(prev, cartLine(item))

\* updateQuantity that keeps a line whose quantity reached 0.
updateQuantityKeepsZero(prev, itemId, delta) ==
    [i \in 1..Len(prev) |->
        IF prev[i].id = itemId
        THEN [prev[i] EXCEPT !.quantity = Max(0, prev[i].quantity + delta)]
        ELSE prev[i]]

updateQuantity(prev, itemId, delta) ==
    FilterPositive([i \in 1..Len(prev) |->
        IF prev[i].id = itemId
        THEN [prev[i] EXCEPT !.quantity = Max(0, prev[i].quantity + delta)]
        ELSE prev[i]])

AddToCart ==
    \E m \in DOMAIN menu :
        /\ activeView = "cashier"
        /\ nextId <= MaxOrders
        /\ QtyOf(cart, m) < MaxQty
        /\ cart' = addToCart(cart, menu[m])
        /\ UiStep
        /\ UNCHANGED <<storeVars, dbVars, activeView, paymentStatus, globalNote, panelVars>>

UpdateQuantity ==
    \E i \in 1..Len(cart), delta \in {-1, 1} :
        /\ activeView = "cashier"
        /\ cart[i].quantity + delta <= MaxQty
        /\ cart' = updateQuantity(cart, cart[i].id, delta)
        /\ UiStep
        /\ UNCHANGED <<storeVars, dbVars, activeView, paymentStatus, globalNote, panelVars>>

SetPaymentStatus ==
    \E status \in {"Paid", "Unpaid"} :
        /\ activeView = "cashier"
        /\ nextId <= MaxOrders
        /\ status # paymentStatus
        /\ paymentStatus' = status
        /\ UiStep
        /\ UNCHANGED <<storeVars, dbVars, activeView, cart, globalNote, panelVars>>

SetGlobalNote ==
    \E text \in Notes :
        /\ activeView = "cashier"
        /\ nextId <= MaxOrders
        /\ text # globalNote
        /\ globalNote' = text
        /\ UiStep
        /\ UNCHANGED <<storeVars, dbVars, activeView, cart, paymentStatus, panelVars>>

\* The OrderData handleConfirmOrder passes to createOrder.
orderData ==
    [items |-> cart, total |-> cartTotal, paymentStatus |-> paymentStatus,
     note |-> globalNote]

\* handleConfirmOrder without the early return on an empty cart.
ConfirmOrderAnyCart ==
    /\ activeView = "cashier"
    /\ Idle
    /\ nextId <= MaxOrders
    /\ createOrder(orderData)
    /\ cart' = <<>>
    /\ paymentStatus' = "Unpaid"
    /\ globalNote' = ""
    /\ UNCHANGED <<activeView, panelVars>>

\* handleConfirmOrder; the form is reset by the timer started after the call.
ConfirmOrder ==
    /\ activeView = "cashier"
    /\ cart # <<>>
    /\ Idle
    /\ nextId <= MaxOrders
    /\ createOrder(orderData)
    /\ cart' = <<>>
    /\ paymentStatus' = "Unpaid"
    /\ globalNote' = ""
    /\ UNCHANGED <<activeView, panelVars>>

\* Switching the view unmounts the other screen and drops its state.
SetActiveView ==
    /\ activeView' = IF activeView = "cashier" THEN "admin" ELSE "cashier"
    /\ cart' = <<>>
    /\ paymentStatus' = "Unpaid"
    /\ globalNote' = ""
    /\ PanelFresh(0)
    /\ DetachPanel
    /\ UiStep
    /\ UNCHANGED <<storeVars, dbOrders, dbOrderItems, dbMenu, orderNotifs, peer, menuNotifs>>

---------------------------------------------------------------------------
(* Admin dashboard and order detail panel *)

PanelOpen == /\ activeView = "admin"
             /\ selectedOrderId # 0
             /\ HasOrder(orders, selectedOrderId)

order == OrderOf(orders, selectedOrderId)

SelectOrder ==
    \E id \in OrderIds :
        /\ activeView = "admin"
        /\ selectedOrderId = 0
        /\ HasOrder(orders, id)
        /\ PanelFresh(id)
        /\ UiStep
        /\ UNCHANGED <<storeVars, dbVars, cartVars>>

ClosePanel ==
    /\ activeView = "admin"
    /\ selectedOrderId # 0
    /\ PanelFresh(0)
    /\ DetachPanel
    /\ UiStep
    /\ UNCHANGED <<storeVars, dbOrders, dbOrderItems, dbMenu, orderNotifs, peer, menuNotifs,
                   cartVars>>

\* The Edit button and the effect that loads the draft from the order.
StartEdit ==
    /\ PanelOpen
    /\ ~isEditing
    /\ ~isEditBlocked(order)
    /\ order.status # "Cancelled"
    /\ nEdits < MaxEdits
    /\ isEditing' = TRUE
    /\ editedItems' = order.items
    /\ editedNote' = order.note
    /\ UiStep
    /\ UNCHANGED <<storeVars, dbVars, cartVars, selectedOrderId, isSaving>>

\* handleUpdateQuantity that resets the prepared flag on every change.
handleUpdateQuantityResetsAlways(prev, itemId, delta) ==
    [i \in 1..Len(prev) |->
        IF prev[i].id = itemId
        THEN [prev[i] EXCEPT !.quantity = Max(1, prev[i].quantity + delta),
                             !.isPrepared = FALSE]
        ELSE prev[i]]

handleUpdateQuantity(prev, itemId, delta) ==
    [i \in 1..Len(prev) |->
        IF prev[i].id = itemId
        THEN [prev[i] EXCEPT !.quantity = Max(1, prev[i].quantity + delta),
                             !.isPrepared = IF delta > 0 THEN FALSE
                                            ELSE prev[i].isPrepared]
        ELSE prev[i]]

handleRemoveItem(prev, itemId) == FilterOut(prev, itemId)

\* handleAddItem that keeps the prepared flag of the line it increments.
handleAddItemKeepsPrepared(prev, menuItem) ==
    IF Find(prev, menuItem.id) # 0
    THEN [i \in 1..Len(prev) |->
            IF prev[i].id = menuItem.id
            THEN [prev[i] EXCEPT !.quantity = prev[i].quantity + 1]
            ELSE prev[i]]
    ELSE Append(prev, [id |-> menuItem.id, quantity |-> 1,
                       basePrice |-> menuItem.basePrice, bundle |-> menuItem.bundle,
                       isPrepared |-> FALSE])

handleAddItem(prev, menuItem) ==
    IF Find(prev, menuItem.id) # 0
    THEN [i \in 1..Len(prev) |->
            IF prev[i].id = menuItem.id
            THEN [prev[i] EXCEPT !.quantity = prev[i].quantity + 1,
                                 !.isPrepared = FALSE]
            ELSE prev[i]]
    ELSE Append(prev, [id |-> menuItem.id, quantity |-> 1,
                       basePrice |-> menuItem.basePrice, bundle |-> menuItem.bundle,
                       isPrepared |-> FALSE])

DraftUpdateQuantity ==
    \E i \in 1..Len(editedItems), delta \in {-1, 1} :
        /\ PanelOpen
        /\ isEditing
        /\ editedItems[i].quantity + delta <= MaxQty
        /\ editedItems' = handleUpdateQuantity(editedItems, editedItems[i].id, delta)
        /\ UiStep
        /\ UNCHANGED <<storeVars, dbVars, cartVars, selectedOrderId, isEditing,
                       isSaving, editedNote>>

DraftRemoveItem ==
    \E i \in 1..Len(editedItems) :
        /\ PanelOpen
        /\ isEditing
        /\ editedItems' = handleRemoveItem(editedItems, editedItems[i].id)
        /\ UiStep
        /\ UNCHANGED <<storeVars, dbVars, cartVars, selectedOrderId, isEditing,
                       isSaving, editedNote>>

DraftAddItem ==
    \E m \in DOMAIN menu :
        /\ PanelOpen
        /\ isEditing
        /\ QtyOf(editedItems, m) < MaxQty
        /\ editedItems' = handleAddItem(editedItems, menu[m])
        /\ UiStep
        /\ UNCHANGED <<storeVars, dbVars, cartVars, selectedOrderId, isEditing,
                       isSaving, editedNote>>

DraftSetNote ==
    \E text \in Notes :
        /\ PanelOpen
        /\ isEditing
        /\ text # editedNote
        /\ editedNote' = text
        /\ UiStep
        /\ UNCHANGED <<storeVars, dbVars, cartVars, selectedOrderId, isEditing,
                       isSaving, editedItems>>

\* The draft differs from the order it was started from.
DraftDirty == editedItems # order.items \/ editedNote # order.note

\* A Cancel button that stores the draft's items in the order.
CancelEditCommits ==
    /\ PanelOpen
    /\ isEditing
    /\ isEditing' = FALSE
    /\ editedItems' = <<>>
    /\ editedNote' = ""
    /\ orders' = MapOrders(orders, order.id, [order EXCEPT !.items = editedItems])
    /\ last' = Op("discard", order.id, "call", IF DraftDirty THEN "dirty" ELSE "clean")
    /\ UNCHANGED <<isRealtime, page, menu, nextId, nEdits, dbVars, cartVars, selectedOrderId,
                   isSaving>>

\* The Cancel button of the edit mode.  The draft is loaded afresh by the
\* effect of the next edit session, so the abandoned draft is never read again.
CancelEdit ==
    /\ PanelOpen
    /\ isEditing
    /\ isEditing' = FALSE
    /\ editedItems' = <<>>
    /\ editedNote' = ""
    /\ last' = Op("discard", order.id, "call", IF DraftDirty THEN "dirty" ELSE "clean")
    /\ UNCHANGED <<storeVars, dbVars, cartVars, selectedOrderId, isSaving>>

\* handleSave.  In local mode updateOrder resolves at once with true; the
\* timer that leaves the edit mode after a successful save is part of the step.
Save ==
    /\ PanelOpen
    /\ isEditing
    /\ editedItems # <<>>
    /\ ~isSaving
    /\ Idle
    /\ IF saveChanges(order, editedItems, editedNote) = 0
       THEN /\ isEditing' = FALSE
            /\ isSaving' = TRUE
            /\ editedItems' = <<>>
            /\ editedNote' = ""
            /\ last' = Op("handleSave", order.id, "call", "nochange")
            /\ UNCHANGED <<storeVars, dbVars>>
       ELSE /\ updateOrder(order.id,
                   [items       |-> editedItems,
                    total       |-> editedTotal,
                    status      |-> saveStatus(order, editedItems),
                    note        |-> editedNote,
                    editHistory |-> Append(order.editHistory,
                                       saveChanges(order, editedItems, editedNote))],
                   TRUE)
            /\ IF isRealtime
               THEN /\ isSaving' = TRUE
                    /\ UNCHANGED <<isEditing, editedItems, editedNote>>
               ELSE /\ isSaving' = FALSE
                    /\ isEditing' = FALSE
                    /\ editedItems' = <<>>
                    /\ editedNote' = ""
    /\ UNCHANGED <<cartVars, selectedOrderId>>

\* handleTogglePayment, from the dashboard row or from the panel.
TogglePayment ==
    \E id \in OrderIds :
        /\ activeView = "admin"
        /\ HasOrder(orders, id)
        /\ selectedOrderId \in {0, id}
        /\ Idle
        /\ updateOrderPaymentStatus(id,
               IF OrderOf(orders, id).paymentStatus = "Paid" THEN "Unpaid" ELSE "Paid")
        /\ UNCHANGED <<cartVars, panelVars>>

\* Cancel Order, from the dashboard row or from the panel (which then closes).
CancelOrder ==
    \E id \in OrderIds :
        /\ activeView = "admin"
        /\ HasOrder(orders, id)
        /\ \/ selectedOrderId = 0
           \/ selectedOrderId = id /\ ~isEditing
        /\ OrderOf(orders, id).status \notin {"Cancelled", "Picked Up"}
        /\ Idle
        /\ updateOrderStatus(id, "Cancelled")
        /\ PanelFresh(0)
        /\ UNCHANGED cartVars

\* Delete Order, from the dashboard row or from the panel (which then closes).
DeleteOrder ==
    \E id \in OrderIds :
        /\ activeView = "admin"
        /\ HasOrder(orders, id)
        /\ \/ selectedOrderId = 0
           \/ selectedOrderId = id /\ ~isEditing
        /\ Idle
        /\ deleteOrder(id)
        /\ PanelFresh(0)
        /\ UNCHANGED cartVars

MarkPickedUp ==
    /\ PanelOpen
    /\ ~isEditing
    /\ order.status = "Completed"
    /\ Idle
    /\ updateOrderStatus(order.id, "Picked Up")
    /\ UNCHANGED <<cartVars, panelVars>>

\* The prepared checkbox of one line of the panel's checklist.
TogglePrepared ==
    /\ PanelOpen
    /\ ~isEditing
    /\ order.status \notin {"Picked Up", "Cancelled"}
    /\ Idle
    /\ \E i \in 1..Len(order.items) :
            toggleOrderItemPrepared(order.id, order.items[i].id)
    /\ UNCHANGED <<cartVars, panelVars>>

---------------------------------------------------------------------------
(* Local storage: JSON.stringify / JSON.parse and the sync effects *)

\* JSON.stringify of a menu item: a key whose value is undefined is left out.
JSONstringifyMenuItem(item) ==
    IF item.stock = Undefined
    THEN [id |-> item.id, basePrice |-> item.basePrice, bundle |-> item.bundle]
    ELSE [id |-> item.id, basePrice |-> item.basePrice, bundle |-> item.bundle,
          stock |-> Val(item.stock)]

\* JSON.parse of a menu item whose absent stock is read as 0.
JSONparseMenuItemStockZero(doc) ==
    [id |-> doc.id, basePrice |-> doc.basePrice, bundle |-> doc.bundle,
     stock |-> IF "stock" \in DOMAIN doc THEN Some(doc.stock) ELSE Some(0)]

\* JSON.parse of a menu item, as the store reads it: an absent key reads
\* undefined.
JSONparseMenuItem(doc) ==
    [id |-> doc.id, basePrice |-> doc.basePrice, bundle |-> doc.bundle,
     stock |-> IF "stock" \in DOMAIN doc THEN Some(doc.stock) ELSE Undefined]

JSONstringifyMenu(m) == [k \in DOMAIN m |-> JSONstringifyMenuItem(m[k])]

JSONparseMenu(doc) == [k \in DOMAIN doc |-> JSONparseMenuItem(doc[k])]

\* JSON.stringify / JSON.parse of the orders: every key the model keeps holds
\* a string, a number, a boolean or an array of such objects.
JSONstringifyOrders(os) ==
    [i \in 1..Len(os) |->
        [id |-> os[i].id, items |-> os[i].items, total |-> os[i].total,
         status |-> os[i].status, paymentStatus |-> os[i].paymentStatus,
         note |-> os[i].note, editHistory |-> os[i].editHistory]]

JSONparseOrders(doc) ==
    [i \in 1..Len(doc) |->
        [id |-> doc[i].id, items |-> doc[i].items, total |-> doc[i].total,
         status |-> doc[i].status, paymentStatus |-> doc[i].paymentStatus,
         note |-> doc[i].note, editHistory |-> doc[i].editHistory]]

\* localStorage once the sync effects of the last render have run: pos_menu
\* and pos_orders hold the collections of that render (local mode).
localStorage ==
    [pos_menu |-> Some(JSONstringifyMenu(menu)),
     pos_orders |-> Some(JSONstringifyOrders(orders))]

\* The init effect's local branch: what it reads from storage, or the
\* defaults for a key that was never written.
loadLocal(storage) ==
    [menu   |-> IF storage.pos_menu # Undefined
                THEN JSONparseMenu(Val(storage.pos_menu))
                ELSE DEFAULT_MENU,
     orders |-> IF storage.pos_orders # Undefined
                THEN JSONparseOrders(Val(storage.pos_orders))
                ELSE <<>>]

\* The two sync effects of a render that saw isRealtime = realtime, menu = m
\* and orders = os: they write both keys unless the render saw remote mode.
syncEffects(realtime, m, os, storage) ==
    IF ~realtime
    THEN [pos_menu   |-> Some(JSONstringifyMenu(m)),
          pos_orders |-> Some(JSONstringifyOrders(os))]
    ELSE storage

\* The page once its start-up effects have run: the first effects see the
\* first render (isRealtime false, both collections empty), the effects of
\* the next render see the mode flag and the loaded collections.
Loaded(realtime, savedMenu, saved) ==
    [configured |-> realtime,
     effects    |-> "done",
     storage    |-> syncEffects(realtime, savedMenu, saved,
                                syncEffects(FALSE, <<>>, <<>>, <<>>))]

---------------------------------------------------------------------------
(* Specifications *)

\* An order saved by an earlier session: one Iced Latte, unpaid.
SavedOrder ==
    newOrderLocal([items |-> <<cartLine(DEFAULT_MENU["2"])>>,
                   total |-> ItemsTotal(<<cartLine(DEFAULT_MENU["2"])>>),
                   paymentStatus |-> "Unpaid", note |-> ""], SavedOrderId)

\* The state after the init effect: the saved menu and the saved orders are
\* loaded from the backend of the mode the store runs in.
InitStore(realtime, savedMenu, saved) ==
    /\ isRealtime = realtime
    /\ page = Loaded(realtime, savedMenu, saved)
    /\ menu = savedMenu
    /\ orders = saved
    /\ nextId = 1
    /\ nEdits = 0
    /\ dbOrders = [i \in 1..Len(saved) |-> dbOrderRow(saved[i])]
    /\ dbOrderItems = IF saved = <<>> THEN <<>>
                      ELSE itemsToInsert(saved[1].id, saved[1].items)
    /\ dbMenu = MenuRows(savedMenu)
    /\ orderNotifs = <<>>
    /\ menuNotifs = <<>>
    /\ inflight = NoReq
    /\ peer = NoPeer
    /\ activeView = "cashier"
    /\ cart = <<>>
    /\ paymentStatus = "Unpaid"
    /\ globalNote = ""
    /\ selectedOrderId = 0
    /\ isEditing = FALSE
    /\ isSaving = FALSE
    /\ editedItems = <<>>
    /\ editedNote = ""
    /\ last = Op("ui", 0, "call", "none")

\* Local mode, nothing saved yet.
Init == InitStore(FALSE, UntrackedMenu, <<>>)

Next ==
    \/ AddToCart
    \/ UpdateQuantity
    \/ SetPaymentStatus
    \/ SetGlobalNote
    \/ ConfirmOrder
    \/ SetActiveView
    \/ SelectOrder
    \/ ClosePanel
    \/ StartEdit
    \/ DraftUpdateQuantity
    \/ DraftRemoveItem
    \/ DraftAddItem
    \/ DraftSetNote
    \/ CancelEdit
    \/ Save
    \/ TogglePayment
    \/ CancelOrder
    \/ DeleteOrder
    \/ MarkPickedUp
    \/ TogglePrepared

Spec == Init /\ [][Next]_vars


---------------------------------------------------------------------------
(* Remote mode: the rest of a handler after its backend call, and the      *)
(* delivery of change notifications.                                       *)

HasRow(rows, id) == \E i \in 1..Len(rows) : rows[i].id = id

RowOf(rows, id) == rows[Find(rows, id)]

OrderNotif(type, row) == [type |-> type, row |-> row]

\* A set of <<menu item id, stock value>> in some fixed order.
RECURSIVE WritesSeq(_)
WritesSeq(writes) ==
    IF writes = {} THEN <<>>
    ELSE LET w == CHOOSE x \in writes : TRUE
         IN  <<w>> \o WritesSeq(writes \ {w})

\* update({ stock }).eq('id', itemId) for each write that succeeds
ApplyStockWrites(rows, writes) ==
    [k \in DOMAIN rows |->
        IF \E w \in writes : w[1] = k
        THEN [rows[k] EXCEPT !.stock = Some((CHOOSE w \in writes : w[1] = k)[2])]
        ELSE rows[k]]

MenuNotif(type, row) == [type |-> type, row |-> row]

StockNotifs(rows, writes) ==
    [i \in 1..Len(WritesSeq(writes)) |->
        MenuNotif("UPDATE",
                  [rows[WritesSeq(writes)[i][1]]
                      EXCEPT !.stock = Some(WritesSeq(writes)[i][2])])]

\* A reply sets the panel's state only while the panel that issued the call
\* is still mounted.
ReplyToPanel(saved) ==
    IF inflight.panel
    THEN /\ isSaving' = FALSE
         /\ IF saved
            THEN /\ isEditing' = FALSE
                 /\ editedItems' = <<>>
                 /\ editedNote' = ""
            ELSE UNCHANGED <<isEditing, editedItems, editedNote>>
         /\ UNCHANGED selectedOrderId
    ELSE UNCHANGED panelVars

\* createOrder without the return on a failed insert: the stock is written
\* although no order was stored.
ReplyCreateOrderNoReturn ==
    /\ inflight.op = "createOrder"
    /\ LET writes == createStockWrites(inflight.seen, inflight.data.items)
       IN  /\ Len(menuNotifs) + Cardinality(writes) <= MaxStockNotifs
           /\ dbMenu' = ApplyStockWrites(dbMenu, writes)
           /\ menuNotifs' = menuNotifs \o StockNotifs(dbMenu, writes)
    /\ last' = [Op("createOrder", 0, "reply", "fail")
                  EXCEPT !.stockWrites =
                      createStockWrites(inflight.seen, inflight.data.items)]
    /\ inflight' = NoReq
    /\ UNCHANGED <<isRealtime, page, nEdits, menu, orders, nextId, dbOrders, dbOrderItems,
                   orderNotifs, peer, cartVars, panelVars>>

ReplyCreateOrder ==
    /\ inflight.op = "createOrder"
    /\ \/ /\ last' = Op("createOrder", 0, "reply", "fail")
          /\ UNCHANGED <<nextId, dbOrders, dbOrderItems, dbMenu, orderNotifs, peer, menuNotifs>>
       \/ LET row == dbOrderRow([inflight.data EXCEPT !.id = nextId])
              writes == createStockWrites(inflight.seen, inflight.data.items)
          IN  /\ Len(orderNotifs) < MaxNotifs
              /\ dbOrders' = <<row>> \o dbOrders
              /\ nextId' = nextId + 1
              /\ orderNotifs' = Append(orderNotifs, OrderNotif("INSERT", row))
              /\ PeerHasRoom
              /\ peer' = PeerNotify(OrderNotif("INSERT", row))
              /\ \E inserted \in BOOLEAN :
                    dbOrderItems' = IF inserted
                                    THEN dbOrderItems \o itemsToInsert(nextId, row.items)
                                    ELSE dbOrderItems
              /\ \E written \in SUBSET writes :
                    /\ Len(menuNotifs) + Cardinality(written) <= MaxStockNotifs
                    /\ dbMenu' = ApplyStockWrites(dbMenu, written)
                    /\ menuNotifs' = menuNotifs \o StockNotifs(dbMenu, written)
              /\ last' = [Op("createOrder", nextId, "reply", "ok")
                            EXCEPT !.stockWrites = writes]
    /\ inflight' = NoReq
    /\ UNCHANGED <<isRealtime, page, nEdits, menu, orders, cartVars, panelVars>>

\* update(fields).eq('id', id): no row matches a deleted order, without error.
WriteOrderRow(id, new) ==
    IF HasRow(dbOrders, id)
    THEN /\ Len(orderNotifs) < MaxNotifs
         /\ dbOrders' = MapDbRows(dbOrders, id, new)
         /\ orderNotifs' = Append(orderNotifs, OrderNotif("UPDATE", new))
         /\ PeerHasRoom
         /\ peer' = PeerNotify(OrderNotif("UPDATE", new))
    ELSE UNCHANGED <<dbOrders, orderNotifs, peer>>

ReplyUpdateOrderStatus ==
    /\ inflight.op = "updateOrderStatus"
    /\ \/ /\ last' = Op("updateOrderStatus", inflight.id, "reply", "fail")
          /\ UNCHANGED <<dbOrders, orderNotifs, peer>>
       \/ /\ WriteOrderRow(inflight.id,
                [RowOf(dbOrders, inflight.id) EXCEPT !.status = inflight.data])
          /\ last' = Op("updateOrderStatus", inflight.id, "reply", "ok")
    /\ inflight' = NoReq
    /\ UNCHANGED <<storeVars, dbOrderItems, dbMenu, menuNotifs, cartVars, panelVars>>

ReplyUpdateOrderPaymentStatus ==
    /\ inflight.op = "updateOrderPaymentStatus"
    /\ \/ /\ last' = Op("updateOrderPaymentStatus", inflight.id, "reply", "fail")
          /\ UNCHANGED <<dbOrders, orderNotifs, peer>>
       \/ /\ WriteOrderRow(inflight.id,
                [RowOf(dbOrders, inflight.id) EXCEPT !.payment_status = inflight.data])
          /\ last' = Op("updateOrderPaymentStatus", inflight.id, "reply", "ok")
    /\ inflight' = NoReq
    /\ UNCHANGED <<storeVars, dbOrderItems, dbMenu, menuNotifs, cartVars, panelVars>>

ReplyToggleOrderItemPrepared ==
    /\ inflight.op = "toggleOrderItemPrepared"
    /\ \/ /\ last' = Op("toggleOrderItemPrepared", inflight.id, "reply", "fail")
          /\ UNCHANGED <<dbOrders, orderNotifs, peer>>
       \/ /\ WriteOrderRow(inflight.id,
                [RowOf(dbOrders, inflight.id) EXCEPT !.items = inflight.data.items,
                                                     !.status = inflight.data.status])
          /\ last' = Op("toggleOrderItemPrepared", inflight.id, "reply", "ok")
    /\ inflight' = NoReq
    /\ UNCHANGED <<storeVars, dbOrderItems, dbMenu, menuNotifs, cartVars, panelVars>>

\* The order write failed: the orders are fetched again, and replace the
\* in-memory collection when the fetch returns data.
ReplyUpdateOrderFailed ==
    /\ inflight.op = "updateOrder"
    /\ \/ /\ orders' = MapDbOrders(dbOrders)
          /\ last' = Op("updateOrder", inflight.id, "reply", "fail")
       \/ /\ UNCHANGED orders
          /\ last' = Op("updateOrder", inflight.id, "reply", "fail_no_data")
    /\ ReplyToPanel(FALSE)
    /\ inflight' = NoReq
    /\ UNCHANGED <<isRealtime, page, nEdits, menu, nextId, dbOrders, dbOrderItems, dbMenu,
                   orderNotifs, peer, menuNotifs, cartVars>>

\* updateOrder that returns false when the projection rebuild failed.
ReplyUpdateOrderStrict ==
    /\ inflight.op = "updateOrder"
    /\ WriteOrderRow(inflight.id, applyDbUpdates(RowOf(dbOrders, inflight.id), inflight.data))
    /\ \E deleted \in BOOLEAN, inserted \in BOOLEAN :
          /\ dbOrderItems' =
                (IF deleted THEN DeleteOrderItems(dbOrderItems, inflight.id)
                            ELSE dbOrderItems)
                \o (IF inserted /\ HasRow(dbOrders, inflight.id)
                    THEN itemsToInsert(inflight.id, inflight.data.items)
                    ELSE <<>>)
          /\ ReplyToPanel(deleted /\ inserted)
    /\ LET writes == IF inflight.old # NoOrder
                     THEN updateStockWrites(inflight.seen, inflight.old.items,
                                            inflight.data.items)
                     ELSE {}
       IN  /\ \E written \in SUBSET writes :
                 /\ Len(menuNotifs) + Cardinality(written) <= MaxStockNotifs
                 /\ dbMenu' = ApplyStockWrites(dbMenu, written)
                 /\ menuNotifs' = menuNotifs \o StockNotifs(dbMenu, written)
           /\ last' = [Op("updateOrder", inflight.id, "reply", "ok")
                         EXCEPT !.stockWrites = writes]
    /\ inflight' = NoReq
    /\ UNCHANGED <<storeVars, cartVars>>

\* The order write succeeded: the projection is rebuilt and the stock
\* written, each call on its own; their failures are not reported.
ReplyUpdateOrder ==
    /\ inflight.op = "updateOrder"
    /\ WriteOrderRow(inflight.id, applyDbUpdates(RowOf(dbOrders, inflight.id), inflight.data))
    /\ \E deleted \in BOOLEAN, inserted \in BOOLEAN :
          dbOrderItems' =
              (IF deleted THEN DeleteOrderItems(dbOrderItems, inflight.id)
                          ELSE dbOrderItems)
              \o (IF inserted /\ HasRow(dbOrders, inflight.id)
                  THEN itemsToInsert(inflight.id, inflight.data.items)
                  ELSE <<>>)
    /\ LET writes == IF inflight.old # NoOrder
                     THEN updateStockWrites(inflight.seen, inflight.old.items,
                                            inflight.data.items)
                     ELSE {}
       IN  /\ \E written \in SUBSET writes :
                 /\ Len(menuNotifs) + Cardinality(written) <= MaxStockNotifs
                 /\ dbMenu' = ApplyStockWrites(dbMenu, written)
                 /\ menuNotifs' = menuNotifs \o StockNotifs(dbMenu, written)
           /\ last' = [Op("updateOrder", inflight.id, "reply", "ok")
                         EXCEPT !.stockWrites = writes]
    /\ ReplyToPanel(TRUE)
    /\ inflight' = NoReq
    /\ UNCHANGED <<storeVars, cartVars>>

\* delete().eq('id', id); order_items rows go with the order (on delete cascade).
ReplyDeleteOrder ==
    /\ inflight.op = "deleteOrder"
    /\ \/ /\ last' = Op("deleteOrder", inflight.id, "reply", "fail")
          /\ UNCHANGED <<dbOrders, dbOrderItems, orderNotifs, peer>>
       \/ /\ IF HasRow(dbOrders, inflight.id)
             THEN /\ Len(orderNotifs) < MaxNotifs
                  /\ orderNotifs' = Append(orderNotifs,
                                           OrderNotif("DELETE", RowOf(dbOrders, inflight.id)))
                  /\ PeerHasRoom
                  /\ peer' = PeerNotify(OrderNotif("DELETE", RowOf(dbOrders, inflight.id)))
             ELSE UNCHANGED <<orderNotifs, peer>>
          /\ dbOrders' = DeleteRows(dbOrders, inflight.id)
          /\ dbOrderItems' = DeleteOrderItems(dbOrderItems, inflight.id)
          /\ last' = Op("deleteOrder", inflight.id, "reply", "ok")
    /\ inflight' = NoReq
    /\ UNCHANGED <<storeVars, dbMenu, menuNotifs, cartVars, panelVars>>

\* ordersSub that handles INSERT only.
ordersSubInsertOnly(prev, payload) ==
    IF payload.type = "INSERT" THEN <<mapDbOrder(payload.row)>> \o prev
    ELSE prev

\* ordersSub: INSERT prepends, UPDATE replaces, any other event is ignored.
ordersSub(prev, payload) ==
    IF payload.type = "INSERT" THEN <<mapDbOrder(payload.row)>> \o prev
    ELSE IF payload.type = "UPDATE"
         THEN MapOrders(prev, payload.row.id, mapDbOrder(payload.row))
    ELSE prev

DeliverOrderNotif ==
    /\ orderNotifs # <<>>
    /\ orders' = ordersSub(orders, Head(orderNotifs))
    /\ orderNotifs' = Tail(orderNotifs)
    /\ UNCHANGED peer
    /\ last' = Op("ordersSub", Head(orderNotifs).row.id, "deliver", Head(orderNotifs).type)
    /\ UNCHANGED <<isRealtime, page, nEdits, menu, nextId, dbOrders, dbOrderItems, dbMenu,
                   menuNotifs, inflight, cartVars, panelVars>>

\* menuSub: INSERT adds the item, UPDATE replaces the item of that id, DELETE
\* removes it.
menuSub(prev, payload) ==
    IF payload.type = "INSERT"
    THEN [k \in DOMAIN prev \cup {payload.row.id} |->
            IF k = payload.row.id THEN mapDbMenuItem(payload.row) ELSE prev[k]]
    ELSE IF payload.type = "UPDATE"
         THEN [k \in DOMAIN prev |->
                 IF k = payload.row.id THEN mapDbMenuItem(payload.row) ELSE prev[k]]
    ELSE [k \in DOMAIN prev \ {payload.row.id} |-> prev[k]]

DeliverMenuNotif ==
    /\ menuNotifs # <<>>
    /\ menu' = menuSub(menu, Head(menuNotifs))
    /\ menuNotifs' = Tail(menuNotifs)
    /\ last' = Op("menuSub", 0, "deliver", Head(menuNotifs).type)
    /\ UNCHANGED <<isRealtime, page, nEdits, orders, nextId, dbOrders, dbOrderItems, dbMenu,
                   orderNotifs, peer, inflight, cartVars, panelVars>>

InitRemote == InitStore(TRUE, UntrackedMenu, <<>>)

NextRemote ==
    \/ Next
    \/ ReplyCreateOrder
    \/ ReplyUpdateOrderStatus
    \/ ReplyUpdateOrderPaymentStatus
    \/ ReplyToggleOrderItemPrepared
    \/ ReplyUpdateOrderFailed
    \/ ReplyUpdateOrder
    \/ ReplyDeleteOrder
    \/ DeliverOrderNotif
    \/ DeliverMenuNotif

SpecRemote == InitRemote /\ [][NextRemote]_vars

---------------------------------------------------------------------------
(* Runs of one part of the application *)

\* The cashier screen in either mode, with one order saved earlier.
InitCashier ==
    \E realtime \in BOOLEAN, savedMenu \in SavedMenus :
        InitStore(realtime, savedMenu, <<SavedOrder>>)

NextCashier ==
    \/ AddToCart
    \/ UpdateQuantity
    \/ SetPaymentStatus
    \/ SetGlobalNote
    \/ ConfirmOrder
    \/ ReplyCreateOrder
    \/ DeliverOrderNotif
    \/ DeliverMenuNotif

SpecCashier == InitCashier /\ [][NextCashier]_vars

\* Remote mode: an order is created, paid and cancelled.
NextStatus ==
    \/ AddToCart
    \/ UpdateQuantity
    \/ SetPaymentStatus
    \/ ConfirmOrder
    \/ SetActiveView
    \/ SelectOrder
    \/ ClosePanel
    \/ TogglePayment
    \/ CancelOrder
    \/ ReplyCreateOrder
    \/ ReplyUpdateOrderStatus
    \/ ReplyUpdateOrderPaymentStatus
    \/ DeliverOrderNotif
    \/ DeliverMenuNotif

SpecStatus == InitRemote /\ [][NextStatus]_vars

\* Either mode: an order is created and its items are edited.
InitEdit ==
    \E realtime \in BOOLEAN, savedMenu \in SavedMenus :
        InitStore(realtime, savedMenu, <<>>)

NextEdit ==
    \/ AddToCart
    \/ UpdateQuantity
    \/ ConfirmOrder
    \/ SetActiveView
    \/ SelectOrder
    \/ StartEdit
    \/ DraftUpdateQuantity
    \/ DraftRemoveItem
    \/ DraftAddItem
    \/ Save
    \/ ReplyCreateOrder
    \/ ReplyUpdateOrderFailed
    \/ ReplyUpdateOrder
    \/ DeliverOrderNotif
    \/ DeliverMenuNotif

SpecEdit == InitEdit /\ [][NextEdit]_vars

\* Remote mode, the dashboard of a session that starts with one saved order:
\* the order is edited and its lines are marked prepared.
InitPrepare == InitStore(TRUE, UntrackedMenu, <<SavedOrder>>)

NextPrepare ==
    \/ SetActiveView
    \/ SelectOrder
    \/ StartEdit
    \/ DraftUpdateQuantity
    \/ DraftAddItem
    \/ Save
    \/ TogglePrepared
    \/ ReplyUpdateOrderFailed
    \/ ReplyUpdateOrder
    \/ ReplyToggleOrderItemPrepared
    \/ DeliverOrderNotif
    \/ DeliverMenuNotif

SpecPrepare == InitPrepare /\ [][NextPrepare]_vars

\* Local mode, with the store's toggleOrderItemPrepared also called directly,
\* on any order and any item id.
ToggleOrderItemPrepared ==
    \E orderId \in OrderIds, itemId \in MenuIds :
        /\ Idle
        /\ toggleOrderItemPrepared(orderId, itemId)
        /\ UNCHANGED <<cartVars, panelVars>>

NextApi ==
    \/ Next
    \/ ToggleOrderItemPrepared

SpecApi == Init /\ [][NextApi]_vars

\* Either mode, a session that starts with one saved order: orders are
\* created and deleted.
InitDelete == \E realtime \in BOOLEAN : InitStore(realtime, UntrackedMenu, <<SavedOrder>>)

NextDelete ==
    \/ AddToCart
    \/ ConfirmOrder
    \/ SetActiveView
    \/ SelectOrder
    \/ ClosePanel
    \/ DeleteOrder
    \/ ReplyCreateOrder
    \/ ReplyDeleteOrder
    \/ DeliverOrderNotif
    \/ DeliverMenuNotif

SpecDelete == InitDelete /\ [][NextDelete]_vars

\* Remote mode, a session that starts with one saved order: its lines are
\* marked prepared, it is picked up or cancelled.
NextLifecycle ==
    \/ SetActiveView
    \/ SelectOrder
    \/ ClosePanel
    \/ TogglePrepared
    \/ MarkPickedUp
    \/ CancelOrder
    \/ TogglePayment
    \/ ReplyToggleOrderItemPrepared
    \/ ReplyUpdateOrderStatus
    \/ ReplyUpdateOrderPaymentStatus
    \/ DeliverOrderNotif

SpecLifecycle == InitPrepare /\ [][NextLifecycle]_vars

\* Local mode, the cashier screen with larger quantities: a cart is built,
\* priced and confirmed.
AddToCartMany ==
    \E m \in DOMAIN menu :
        /\ activeView = "cashier"
        /\ nextId <= MaxOrders
        /\ QtyOf(cart, m) < MaxPricedQty
        /\ cart' = addToCart(cart, menu[m])
        /\ UiStep
        /\ UNCHANGED <<storeVars, dbVars, activeView, paymentStatus, globalNote, panelVars>>

UpdateQuantityMany ==
    \E i \in 1..Len(cart), delta \in {-1, 1} :
        /\ activeView = "cashier"
        /\ cart[i].quantity + delta <= MaxPricedQty
        /\ cart' = updateQuantity(cart, cart[i].id, delta)
        /\ UiStep
        /\ UNCHANGED <<storeVars, dbVars, activeView, paymentStatus, globalNote, panelVars>>

InitPricing == InitStore(FALSE, PricingMenu, <<>>)

NextPricing ==
    \/ AddToCartMany
    \/ UpdateQuantityMany
    \/ ConfirmOrder

SpecPricing == InitPricing /\ [][NextPricing]_vars

\* Remote mode, the cashier screen of a session that starts with no saved
\* order and so has room for one more order: orders are created back to back.
AddToCartNext ==
    \E m \in DOMAIN menu :
        /\ activeView = "cashier"
        /\ nextId <= SavedOrderId
        /\ QtyOf(cart, m) < MaxQty
        /\ cart' = addToCart(cart, menu[m])
        /\ UiStep
        /\ UNCHANGED <<storeVars, dbVars, activeView, paymentStatus, globalNote, panelVars>>

ConfirmOrderNext ==
    /\ activeView = "cashier"
    /\ cart # <<>>
    /\ Idle
    /\ nextId <= SavedOrderId
    /\ createOrder(orderData)
    /\ cart' = <<>>
    /\ paymentStatus' = "Unpaid"
    /\ globalNote' = ""
    /\ UNCHANGED <<activeView, panelVars>>

InitStock == InitStore(TRUE, DEFAULT_MENU, <<>>)

NextStock ==
    \/ AddToCartNext
    \/ ConfirmOrderNext
    \/ ReplyCreateOrder
    \/ DeliverOrderNotif
    \/ DeliverMenuNotif

SpecStock == InitStock /\ [][NextStock]_vars

---------------------------------------------------------------------------
(* The store's order operations called directly (StoreContext value) *)

\* The updates of an edit that leaves one Espresso in the order.
ApiUpdates ==
    [items       |-> <<[id |-> "1", quantity |-> 1,
                        basePrice |-> DEFAULT_MENU["1"].basePrice,
                        bundle |-> DEFAULT_MENU["1"].bundle, isPrepared |-> FALSE]>>,
     total       |-> DEFAULT_MENU["1"].basePrice,
     status      |-> "Pending",
     note        |-> "",
     editHistory |-> <<1>>]

UpdateOrderStatus ==
    \E id \in OrderIds, status \in {"Cancelled", "Picked Up"} :
        /\ Idle
        /\ updateOrderStatus(id, status)
        /\ UNCHANGED <<cartVars, panelVars>>

UpdateOrderPaymentStatus ==
    \E id \in OrderIds, payment \in {"Paid", "Unpaid"} :
        /\ Idle
        /\ updateOrderPaymentStatus(id, payment)
        /\ UNCHANGED <<cartVars, panelVars>>

UpdateOrder ==
    \E id \in OrderIds :
        /\ Idle
        /\ updateOrder(id, ApiUpdates, FALSE)
        /\ UNCHANGED <<cartVars, panelVars>>

\* Either mode, a session that starts with one saved order and the default
\* menu: the four order operations are called with the id of that order and
\* with an id the store does not hold.
InitOrderApi == \E realtime \in BOOLEAN : InitStore(realtime, DEFAULT_MENU, <<SavedOrder>>)

NextOrderApi ==
    \/ UpdateOrderStatus
    \/ UpdateOrderPaymentStatus
    \/ UpdateOrder
    \/ ToggleOrderItemPrepared
    \/ ReplyUpdateOrderStatus
    \/ ReplyUpdateOrderPaymentStatus
    \/ ReplyUpdateOrderFailed
    \/ ReplyUpdateOrder
    \/ ReplyToggleOrderItemPrepared
    \/ DeliverOrderNotif
    \/ DeliverMenuNotif

SpecOrderApi == InitOrderApi /\ [][NextOrderApi]_vars

---------------------------------------------------------------------------
(* Menu management (AdminDashboard, ItemModal) *)

\* handleSaveItem without an item being edited.
SaveNewMenuItem ==
    \E item \in ItemForms :
        /\ activeView = "admin"
        /\ Idle
        /\ NewMenuId \notin DOMAIN menu
        /\ NewMenuId \notin DOMAIN dbMenu
        /\ addMenuItem(item)
        /\ UNCHANGED <<cartVars, panelVars>>

\* handleSaveItem for the item being edited.
SaveMenuItem ==
    \E id \in DOMAIN menu, updates \in ItemForms :
        /\ activeView = "admin"
        /\ Idle
        /\ updateMenuItem(id, updates)
        /\ UNCHANGED <<cartVars, panelVars>>

\* handleDeleteMenuItem, confirmed.
DeleteMenuItem ==
    \E id \in DOMAIN menu :
        /\ activeView = "admin"
        /\ Idle
        /\ deleteMenuItem(id)
        /\ UNCHANGED <<cartVars, panelVars>>

\* What the backend's reply to a menu write leaves alone.
MenuReplyFrame ==
    /\ inflight' = NoReq
    /\ UNCHANGED <<storeVars, dbOrders, dbOrderItems, orderNotifs, peer, cartVars,
                   panelVars>>

\* insert(dbItem)
ReplyAddMenuItem ==
    /\ inflight.op = "addMenuItem"
    /\ \/ /\ last' = Op("addMenuItem", 0, "reply", "fail")
          /\ UNCHANGED <<dbMenu, menuNotifs>>
       \/ LET row == dbItemRow(inflight.id, inflight.data)
          IN  /\ Len(menuNotifs) < MaxNotifs
              /\ dbMenu' = [k \in DOMAIN dbMenu \cup {row.id} |->
                               IF k = row.id THEN row ELSE dbMenu[k]]
              /\ menuNotifs' = Append(menuNotifs, MenuNotif("INSERT", row))
              /\ last' = Op("addMenuItem", 0, "reply", "ok")
    /\ MenuReplyFrame

\* update(dbUpdates).eq('id', id)
ReplyUpdateMenuItem ==
    /\ inflight.op = "updateMenuItem"
    /\ \/ /\ last' = Op("updateMenuItem", 0, "reply", "fail")
          /\ UNCHANGED <<dbMenu, menuNotifs>>
       \/ /\ IF inflight.id \in DOMAIN dbMenu
             THEN LET row == applyMenuDbUpdates(dbMenu[inflight.id], inflight.data)
                  IN  /\ Len(menuNotifs) < MaxNotifs
                      /\ dbMenu' = [dbMenu EXCEPT ![inflight.id] = row]
                      /\ menuNotifs' = Append(menuNotifs, MenuNotif("UPDATE", row))
             ELSE UNCHANGED <<dbMenu, menuNotifs>>
          /\ last' = Op("updateMenuItem", 0, "reply", "ok")
    /\ MenuReplyFrame

\* delete().eq('id', id)
ReplyDeleteMenuItem ==
    /\ inflight.op = "deleteMenuItem"
    /\ \/ /\ last' = Op("deleteMenuItem", 0, "reply", "fail")
          /\ UNCHANGED <<dbMenu, menuNotifs>>
       \/ /\ IF inflight.id \in DOMAIN dbMenu
             THEN /\ Len(menuNotifs) < MaxNotifs
                  /\ dbMenu' = [k \in DOMAIN dbMenu \ {inflight.id} |-> dbMenu[k]]
                  /\ menuNotifs' = Append(menuNotifs,
                                          MenuNotif("DELETE", dbMenu[inflight.id]))
             ELSE UNCHANGED <<dbMenu, menuNotifs>>
          /\ last' = Op("deleteMenuItem", 0, "reply", "ok")
    /\ MenuReplyFrame

\* Either mode, a session that starts with one saved order: the menu is
\* edited while the order's payment status is toggled.
InitMenu == \E realtime \in BOOLEAN : InitStore(realtime, DEFAULT_MENU, <<SavedOrder>>)

NextMenu ==
    \/ SetActiveView
    \/ SaveNewMenuItem
    \/ SaveMenuItem
    \/ DeleteMenuItem
    \/ ReplyAddMenuItem
    \/ ReplyUpdateMenuItem
    \/ ReplyDeleteMenuItem
    \/ DeliverMenuNotif
    \/ TogglePayment
    \/ ReplyUpdateOrderPaymentStatus
    \/ DeliverOrderNotif

SpecMenu == InitMenu /\ [][NextMenu]_vars

---------------------------------------------------------------------------
(* Page reloads (local mode) *)

\* The page is reloaded: every component is mounted afresh and the store's
\* init effect loads the collections from local storage.
Restart ==
    /\ ~isRealtime
    /\ menu' = loadLocal(localStorage).menu
    /\ orders' = loadLocal(localStorage).orders
    /\ activeView' = "cashier"
    /\ cart' = <<>>
    /\ paymentStatus' = "Unpaid"
    /\ globalNote' = ""
    /\ PanelFresh(0)
    /\ last' = Op("restart", 0, "call", "ok")
    /\ UNCHANGED <<isRealtime, page, nextId, nEdits, dbVars>>

\* Local mode with page reloads.
NextLocal ==
    \/ AddToCart
    \/ UpdateQuantity
    \/ SetPaymentStatus
    \/ ConfirmOrder
    \/ SetActiveView
    \/ SelectOrder
    \/ StartEdit
    \/ DraftUpdateQuantity
    \/ DraftRemoveItem
    \/ DraftAddItem
    \/ DraftSetNote
    \/ Save
    \/ TogglePayment
    \/ CancelOrder
    \/ DeleteOrder
    \/ MarkPickedUp
    \/ TogglePrepared
    \/ Restart

SpecLocal == Init /\ [][NextLocal]_vars

---------------------------------------------------------------------------
(* Start-up of the store (StoreProvider's effects after the first render) *)

\* What localStorage may hold when the page is opened: nothing, or what an
\* earlier local session wrote.
StoredMenus  == {Undefined} \cup {Some(JSONstringifyMenu(m)) : m \in SavedMenus}
StoredOrders == {Undefined, Some(JSONstringifyOrders(<<>>)),
                 Some(JSONstringifyOrders(<<SavedOrder>>))}

\* The first render: useState(false) for isRealtime, useState([]) for both
\* collections; no effect has run yet.
InitStartup ==
    \E configured \in BOOLEAN, pos_menu \in StoredMenus, pos_orders \in StoredOrders,
       remoteMenu \in SavedMenus, remoteOrders \in {<<>>, <<SavedOrder>>} :
        /\ page = [configured |-> configured, effects |-> "none",
                   storage |-> [pos_menu |-> pos_menu, pos_orders |-> pos_orders]]
        /\ isRealtime = FALSE
        /\ menu = <<>>
        /\ orders = <<>>
        /\ nextId = 1
        /\ nEdits = 0
        /\ dbOrders = IF configured
                      THEN [i \in 1..Len(remoteOrders) |-> dbOrderRow(remoteOrders[i])]
                      ELSE <<>>
        /\ dbOrderItems = IF configured /\ remoteOrders # <<>>
                          THEN itemsToInsert(remoteOrders[1].id, remoteOrders[1].items)
                          ELSE <<>>
        /\ dbMenu = IF configured THEN MenuRows(remoteMenu) ELSE <<>>
        /\ orderNotifs = <<>>
        /\ menuNotifs = <<>>
        /\ inflight = NoReq
        /\ peer = NoPeer
        /\ activeView = "cashier"
        /\ cart = <<>>
        /\ paymentStatus = "Unpaid"
        /\ globalNote = ""
        /\ selectedOrderId = 0
        /\ isEditing = FALSE
        /\ isSaving = FALSE
        /\ editedItems = <<>>
        /\ editedNote = ""
        /\ last = Op("ui", 0, "call", "none")

\* The effects of the first render, in the order they are declared: the init
\* effect (remote: set the mode flag, start fetchData, subscribe; local: load
\* both collections from localStorage), then the two sync effects, which see
\* the first render's isRealtime, menu and orders.
MountEffects ==
    /\ page.effects = "none"
    /\ IF page.configured
       THEN /\ isRealtime' = TRUE
            /\ inflight' = Request("fetchData", 0, NoOrder, NoOrder, FALSE)
            /\ UNCHANGED <<menu, orders>>
       ELSE /\ menu' = loadLocal(page.storage).menu
            /\ orders' = loadLocal(page.storage).orders
            /\ UNCHANGED <<isRealtime, inflight>>
    /\ page' = [page EXCEPT !.effects = "first",
                            !.storage = syncEffects(isRealtime, menu, orders, page.storage)]
    /\ last' = Op("mount", 0, "call", "ok")
    /\ UNCHANGED <<nextId, nEdits, dbOrders, dbOrderItems, dbMenu, orderNotifs, peer,
                   menuNotifs, cartVars, panelVars>>

\* The effects of the render that follows the state changes of the first
\* effects: the sync effects run again, with the new isRealtime, menu and orders.
RenderEffects ==
    /\ page.effects = "first"
    /\ page' = [page EXCEPT !.effects = "done",
                            !.storage = syncEffects(isRealtime, menu, orders, page.storage)]
    /\ last' = Op("render", 0, "call", "ok")
    /\ UNCHANGED <<isRealtime, menu, orders, nextId, nEdits, dbVars, cartVars, panelVars>>

\* fetchData resolves: each collection is replaced when its select returned
\* data; the render that follows runs the sync effects again.
ReplyFetchData ==
    /\ inflight.op = "fetchData"
    /\ page.effects = "done"
    /\ \E menuData, ordersData \in BOOLEAN :
          /\ menu' = IF menuData
                     THEN [k \in DOMAIN dbMenu |-> mapDbMenuItem(dbMenu[k])]
                     ELSE menu
          /\ orders' = IF ordersData THEN MapDbOrders(dbOrders) ELSE orders
          /\ last' = Op("fetchData", 0, "reply",
                        IF menuData /\ ordersData THEN "ok" ELSE "fail")
    /\ page' = [page EXCEPT !.storage = syncEffects(isRealtime, menu', orders',
                                                    page.storage)]
    /\ inflight' = NoReq
    /\ UNCHANGED <<isRealtime, nextId, nEdits, dbOrders, dbOrderItems, dbMenu,
                   orderNotifs, peer, menuNotifs, cartVars, panelVars>>

\* The store starts while the cashier screen is already in use.
NextStartup ==
    \/ MountEffects
    \/ RenderEffects
    \/ ReplyFetchData
    \/ SetActiveView
    \/ AddToCart

SpecStartup == InitStartup /\ [][NextStartup]_vars

---------------------------------------------------------------------------
(* A second client on the same backend *)

\* What a step of the second client leaves alone in the first.
PeerStep(id, step, res) ==
    /\ last' = Op("peer", id, step, res)
    /\ UNCHANGED <<storeVars, dbOrderItems, dbMenu, menuNotifs, inflight, cartVars,
                   panelVars>>

\* The second client's init effect: it fetches the orders and subscribes to
\* the channel.
PeerStart ==
    /\ isRealtime
    /\ ~peer.online
    /\ peer' = [online |-> TRUE, orders |-> MapDbOrders(dbOrders), notifs |-> <<>>,
                inflight |-> NoReq]
    /\ PeerStep(0, "start", "ok")
    /\ UNCHANGED <<dbOrders, orderNotifs>>

\* The second client's prepared checkbox: toggleOrderItemPrepared up to its
\* backend write.
PeerTogglePrepared ==
    \E i \in 1..Len(peer.orders) :
        \E k \in 1..Len(peer.orders[i].items) :
            LET o == peer.orders[i]
                updatedItems == toggleItems(o.items, o.items[k].id)
                newStatus == toggleStatus(o, updatedItems)
            IN  /\ peer.online
                /\ peer.inflight = NoReq
                /\ o.status \notin {"Picked Up", "Cancelled"}
                /\ peer' = [peer EXCEPT
                        !.orders = MapOrders(peer.orders, o.id,
                                       [o EXCEPT !.items = updatedItems,
                                                 !.status = newStatus]),
                        !.inflight = Request("toggleOrderItemPrepared", o.id,
                                             [items |-> updatedItems,
                                              status |-> newStatus],
                                             NoOrder, FALSE)]
                /\ PeerStep(o.id, "call", "pending")
                /\ UNCHANGED <<dbOrders, orderNotifs>>

\* The second client's Cancel Order: updateOrderStatus up to its backend write.
PeerCancelOrder ==
    \E i \in 1..Len(peer.orders) :
        LET o == peer.orders[i]
        IN  /\ peer.online
            /\ peer.inflight = NoReq
            /\ o.status \notin {"Cancelled", "Picked Up"}
            /\ peer' = [peer EXCEPT
                    !.orders = MapOrders(peer.orders, o.id,
                                   [o EXCEPT !.status = "Cancelled"]),
                    !.inflight = Request("updateOrderStatus", o.id, "Cancelled",
                                         NoOrder, FALSE)]
            /\ PeerStep(o.id, "call", "pending")
            /\ UNCHANGED <<dbOrders, orderNotifs>>

\* The row the second client's pending write stores.
PeerRow(row) ==
    IF peer.inflight.op = "toggleOrderItemPrepared"
    THEN [row EXCEPT !.items = peer.inflight.data.items,
                     !.status = peer.inflight.data.status]
    ELSE [row EXCEPT !.status = peer.inflight.data]

\* The backend's reply to the second client's write: an error leaves its
\* optimistic update in place; a success is published to both clients.
PeerReply ==
    /\ peer.online
    /\ peer.inflight # NoReq
    /\ \/ /\ peer' = [peer EXCEPT !.inflight = NoReq]
          /\ PeerStep(peer.inflight.id, "reply", "fail")
          /\ UNCHANGED <<dbOrders, orderNotifs>>
       \/ /\ IF HasRow(dbOrders, peer.inflight.id)
             THEN LET new == PeerRow(RowOf(dbOrders, peer.inflight.id))
                  IN  /\ Len(orderNotifs) < MaxNotifs
                      /\ Len(peer.notifs) < MaxNotifs
                      /\ dbOrders' = MapDbRows(dbOrders, peer.inflight.id, new)
                      /\ orderNotifs' = Append(orderNotifs, OrderNotif("UPDATE", new))
                      /\ peer' = [peer EXCEPT
                              !.notifs = Append(peer.notifs, OrderNotif("UPDATE", new)),
                              !.inflight = NoReq]
             ELSE /\ peer' = [peer EXCEPT !.inflight = NoReq]
                  /\ UNCHANGED <<dbOrders, orderNotifs>>
          /\ PeerStep(peer.inflight.id, "reply", "ok")

\* The second client's ordersSub handles its next notification.
PeerDeliverOrderNotif ==
    /\ peer.online
    /\ peer.notifs # <<>>
    /\ peer' = [peer EXCEPT !.orders = ordersSub(peer.orders, Head(peer.notifs)),
                            !.notifs = Tail(peer.notifs)]
    /\ PeerStep(Head(peer.notifs).row.id, "deliver", Head(peer.notifs).type)
    /\ UNCHANGED <<dbOrders, orderNotifs>>

\* The step just taken is a backend reply without an error.
Succeeded == last'.res = "ok"

CreateOrderSucceeds == ReplyCreateOrder /\ Succeeded
ToggleOrderItemPreparedSucceeds == ReplyToggleOrderItemPrepared /\ Succeeded
PeerWriteSucceeds == PeerReply /\ Succeeded

\* Remote mode, two clients, every backend write succeeds: the first client
\* takes an order at the cashier screen; both clients tick prepared
\* checkboxes and the second cancels.
NextClients ==
    \/ AddToCart
    \/ ConfirmOrder
    \/ SetActiveView
    \/ SelectOrder
    \/ TogglePrepared
    \/ CreateOrderSucceeds
    \/ ToggleOrderItemPreparedSucceeds
    \/ DeliverOrderNotif
    \/ PeerStart
    \/ PeerTogglePrepared
    \/ PeerCancelOrder
    \/ PeerWriteSucceeds
    \/ PeerDeliverOrderNotif

SpecClients == InitRemote /\ [][NextClients]_vars

\* Remote mode, a session that starts with one saved order: every operation
\* of the dashboard and the panel on that order.
NextOrderOps ==
    \/ SetActiveView
    \/ SelectOrder
    \/ StartEdit
    \/ DraftAddItem
    \/ Save
    \/ TogglePrepared
    \/ TogglePayment
    \/ CancelOrder
    \/ ReplyUpdateOrderFailed
    \/ ReplyUpdateOrder
    \/ ReplyToggleOrderItemPrepared
    \/ ReplyUpdateOrderStatus
    \/ ReplyUpdateOrderPaymentStatus
    \/ DeliverOrderNotif
    \/ DeliverMenuNotif

SpecOrderOps == InitPrepare /\ [][NextOrderOps]_vars

---------------------------------------------------------------------------
(* Properties *)

\* The step just taken is the call of store operation op.
Called(op) == last'.op = op /\ last'.step = "call"

\* The order a store operation was called for, before and after the call.
Before == OrderOf(orders, last'.id)
After  == OrderOf(orders', last'.id)

Terminal(status) == status \in {"Cancelled", "Picked Up"}

\* The derivation rule: Pending with nothing prepared, Completed with all of
\* N > 0 prepared, Preparing otherwise.
DerivedStatus(items) ==
    IF PreparedCount(items) = 0 THEN "Pending"
    ELSE IF PreparedCount(items) = Len(items) THEN "Completed"
    ELSE "Preparing"

\* C1: after toggleOrderItemPrepared on an order that is neither Cancelled
\* nor Picked Up, exactly the flags of the lines with the given item id are
\* flipped and the order's status is the derivation from the updated flags
\* (so a Completed order with one item unprepared again is Preparing).
C1_ToggleDerivesStatus ==
    [][(/\ Called("toggleOrderItemPrepared")
        /\ HasOrder(orders, last'.id)
        /\ ~Terminal(Before.status))
       => /\ HasOrder(orders', last'.id)
          /\ Len(After.items) = Len(Before.items)
          /\ \E itemId \in MenuIds :
                \A i \in 1..Len(Before.items) :
                    /\ After.items[i].id = Before.items[i].id
                    /\ After.items[i].quantity = Before.items[i].quantity
                    /\ After.items[i].isPrepared =
                          IF Before.items[i].id = itemId
                          THEN ~Before.items[i].isPrepared
                          ELSE Before.items[i].isPrepared
          /\ After.status = DerivedStatus(After.items)
          /\ (Before.status = "Completed" /\ Len(After.items) > 1
                  /\ After.items # Before.items)
             => After.status = "Preparing"]_vars

\* C1 witness: a toggle has just left an order of two lines with one line
\* prepared and the other not, in status Preparing.
C1_Witness ==
    /\ last.op = "toggleOrderItemPrepared"
    /\ last.res = "ok"
    /\ HasOrder(orders, last.id)
    /\ Len(OrderOf(orders, last.id).items) = 2
    /\ PreparedCount(OrderOf(orders, last.id).items) = 1
    /\ OrderOf(orders, last.id).status = "Preparing"

\* C2: neither toggleOrderItemPrepared nor an edit save (handleSave calling
\* updateOrder) changes the status of an order that is Cancelled or Picked Up.
C2_TerminalStatusKept ==
    [][(/\ Called("toggleOrderItemPrepared") \/ Called("updateOrder")
        /\ HasOrder(orders, last'.id)
        /\ Terminal(Before.status))
       => /\ HasOrder(orders', last'.id)
          /\ After.status = Before.status]_vars

\* C2 witness: an edit has just been saved on a Picked Up order whose lines
\* are not all prepared, so that the derivation would have named another
\* status.
C2_Witness ==
    /\ last.op = "updateOrder"
    /\ last.res = "ok"
    /\ HasOrder(orders, last.id)
    /\ OrderOf(orders, last.id).status = "Picked Up"
    /\ PreparedCount(OrderOf(orders, last.id).items)
           < Len(OrderOf(orders, last.id).items)

\* C3: in remote mode, once the backend write of updateOrderStatus or
\* updateOrderPaymentStatus has failed and no notification is pending, the
\* in-memory order carries the backend's value of the field, not the value
\* that failed.
C3_FailedWriteRolledBack ==
    (/\ last.step = "reply"
     /\ last.res = "fail"
     /\ orderNotifs = <<>>
     /\ HasOrder(orders, last.id)
     /\ HasRow(dbOrders, last.id))
    => /\ last.op = "updateOrderStatus"
          => OrderOf(orders, last.id).status = RowOf(dbOrders, last.id).status
       /\ last.op = "updateOrderPaymentStatus"
          => OrderOf(orders, last.id).paymentStatus
                = RowOf(dbOrders, last.id).payment_status

\* The step just taken is the rest of updateOrder after a failed order write.
UpdateFailed ==
    /\ last'.op = "updateOrder"
    /\ last'.step = "reply"
    /\ last'.res \in {"fail", "fail_no_data"}

\* C4: in remote mode, when the backend write of updateOrder fails, the call
\* returns false (the panel that issued it stays in edit mode), the in-memory
\* orders are replaced by the backend's orders, and neither the line-item
\* projection nor any stock is modified.
C4_FailedUpdateRolledBack ==
    [][UpdateFailed
       => /\ orders' = MapDbOrders(dbOrders')
          /\ dbOrders' = dbOrders
          /\ dbOrderItems' = dbOrderItems
          /\ dbMenu' = dbMenu
          /\ menuNotifs' = menuNotifs
          /\ menu' = menu
          /\ inflight.panel => (isEditing' /\ ~isSaving')]_vars

\* C5: no edit save changes the items or the note of an order that is edit
\* blocked (Completed or Picked Up, and Paid) when the save is issued.
C5_NoEditOfBlockedOrder ==
    [][(/\ Called("updateOrder")
        /\ HasOrder(orders, last'.id)
        /\ isEditBlocked(Before))
       => /\ After.items = Before.items
          /\ After.note = Before.note]_vars

\* The adjustment the claims name for one menu item id: the quantity in the
\* old items minus the quantity in the new items, 0 where the id is absent.
StockDelta(oldItems, newItems, k) == QtyOf(oldItems, k) - QtyOf(newItems, k)

\* A menu item after an adjustment: untouched when it tracks no stock or the
\* adjustment is zero.
Adjusted(item, delta) ==
    IF item.stock = Undefined \/ delta = 0 THEN item
    ELSE [item EXCEPT !.stock = Some(Val(item.stock) + delta)]

\* The stock notifications published by the step just taken.
Published ==
    [i \in 1..(Len(menuNotifs') - Len(menuNotifs)) |->
        menuNotifs'[Len(menuNotifs) + i].row]

\* C6: updateOrder adjusts the stock of each menu item id by its quantity in
\* the pre-edit order minus its quantity in the new items.  In local mode the
\* in-memory stock of every stock-tracking item moves by that amount and
\* nothing else changes.  In remote mode the stock writes issued are exactly
\* one per item that tracks stock and whose amount is not zero, each of the
\* stock the handler read plus that amount; a write that succeeds stores
\* that value and no other stock changes.
C6_StockAdjustment ==
    [][/\ (Called("updateOrder") /\ last'.res = "ok" /\ HasOrder(orders, last'.id))
          => \A k \in MenuIds :
                menu'[k] = Adjusted(menu[k], StockDelta(Before.items, After.items, k))
       /\ (Called("updateOrder") /\ last'.res = "pending")
          => menu' = menu /\ dbMenu' = dbMenu /\ menuNotifs' = menuNotifs
       /\ (/\ last'.op = "updateOrder" /\ last'.step = "reply" /\ last'.res = "ok"
           /\ inflight.old # NoOrder)
          => /\ menu' = menu
             /\ last'.stockWrites =
                   {<<k, Val(inflight.seen[k].stock)
                           + StockDelta(inflight.old.items, inflight.data.items, k)>> :
                       k \in {x \in MenuIds :
                                /\ inflight.seen[x].stock # Undefined
                                /\ StockDelta(inflight.old.items,
                                              inflight.data.items, x) # 0}}
             /\ \A i \in 1..Len(Published) :
                   /\ <<Published[i].id, Val(Published[i].stock)>> \in last'.stockWrites
                   /\ dbMenu'[Published[i].id] = Published[i]
                   /\ \A j \in 1..Len(Published) :
                         Published[j].id = Published[i].id => j = i
             /\ \A k \in MenuIds :
                   (\A i \in 1..Len(Published) : Published[i].id # k)
                      => dbMenu'[k] = dbMenu[k]]_vars

\* C6 witness: in remote mode an edit has just written the stock of both
\* items, one unit of Espresso returned and one Iced Latte consumed.
C6_Witness ==
    /\ isRealtime
    /\ last.op = "updateOrder"
    /\ last.step = "reply"
    /\ last.res = "ok"
    /\ Len(menuNotifs) = 2
    /\ \E i, j \in 1..2 :
          /\ menuNotifs[i].row.id = "1"
          /\ menuNotifs[i].row.stock = Some(Val(DEFAULT_MENU["1"].stock) + 1)
          /\ menuNotifs[j].row.id = "2"
          /\ menuNotifs[j].row.stock = Some(Val(DEFAULT_MENU["2"].stock) - 1)

\* C7: in local mode createOrder lowers the stock of every stock-tracking
\* menu item of the order by the line's quantity, leaves every other menu
\* item unchanged, and prepends the new order, all its lines unprepared.
C7_LocalCreate ==
    [][(Called("createOrder") /\ last'.res = "ok")
       => /\ orders' = <<Head(orders')>> \o orders
          /\ Head(orders').id = last'.id
          /\ ~HasOrder(orders, last'.id)
          /\ Len(Head(orders').items) = Len(cart)
          /\ \A i \in 1..Len(cart) :
                /\ Head(orders').items[i].id = cart[i].id
                /\ Head(orders').items[i].quantity = cart[i].quantity
                /\ ~Head(orders').items[i].isPrepared
          /\ \A k \in MenuIds :
                menu'[k] = Adjusted(menu[k], 0 - QtyOf(cart, k))]_vars

\* C7 witness: local mode, an order of two Iced Latte and one Espresso that
\* tracks no stock has just been created in front of the saved order.
C7_Witness ==
    /\ ~isRealtime
    /\ last.op = "createOrder"
    /\ last.res = "ok"
    /\ Len(orders) = 2
    /\ orders[2] = SavedOrder
    /\ QtyOf(orders[1].items, "2") = 2
    /\ QtyOf(orders[1].items, "1") = 1
    /\ menu["1"].stock = Undefined
    /\ menu["2"].stock = Some(Val(DEFAULT_MENU["2"].stock) - 2)

\* C8: in remote mode, when the order insert of createOrder fails, the call
\* ends with the failure result and writes no stock value and no line-item
\* projection row (and no order).
C8_FailedCreateWritesNothing ==
    [][(last'.op = "createOrder" /\ last'.step = "reply" /\ last'.res = "fail")
       => /\ dbMenu' = dbMenu
          /\ menuNotifs' = menuNotifs
          /\ dbOrderItems' = dbOrderItems
          /\ dbOrders' = dbOrders
          /\ orderNotifs' = orderNotifs
          /\ last'.stockWrites = {}
          /\ menu' = menu
          /\ orders' = orders]_vars

\* C8 witness: remote mode, the insert of an order has just failed while
\* every menu item tracks stock.
C8_Witness ==
    /\ isRealtime
    /\ last = Op("createOrder", 0, "reply", "fail")
    /\ dbMenu = MenuRows(DEFAULT_MENU)
    /\ dbOrderItems = itemsToInsert(SavedOrderId, SavedOrder.items)

\* C9: every stored order's total is the sum of the pricing engine's item
\* totals of its items.
C9_TotalIsSumOfItems ==
    \A i \in 1..Len(orders) : orders[i].total = ItemsTotal(orders[i].items)

\* C10: every order's fulfilment status is one of the five values (so an
\* order created as Paid starts Pending, with paymentStatus Paid).
C10_StatusIsEnumerated ==
    \A i \in 1..Len(orders) :
        /\ orders[i].status
              \in {"Pending", "Preparing", "Completed", "Picked Up", "Cancelled"}
        /\ orders[i].paymentStatus \in {"Paid", "Unpaid"}

\* The step just taken belongs to an edit draft: it starts one, changes one
\* or discards one, without calling the store.
DraftStep == last'.op \in {"ui", "discard"} /\ (isEditing \/ isEditing')

\* C11: starting an edit draft, changing it (add item, change quantity,
\* remove item, change note) and discarding it (Cancel, closing the panel,
\* leaving the dashboard) leave every stored order, hence its items, total
\* and status, and every menu item's stock unchanged, in memory and in the
\* backend.
C11_DraftIsolation ==
    [][DraftStep
       => /\ orders' = orders
          /\ menu' = menu
          /\ dbOrders' = dbOrders
          /\ dbOrderItems' = dbOrderItems
          /\ dbMenu' = dbMenu]_vars

\* C11 witness: a draft that differed from its order has just been discarded
\* and the order still has the one line it was created with, at its price.
C11_Witness ==
    /\ last.op = "discard"
    /\ last.res = "dirty"
    /\ ~isEditing
    /\ HasOrder(orders, last.id)
    /\ Len(OrderOf(orders, last.id).items) = 1
    /\ OrderOf(orders, last.id).total = ItemsTotal(OrderOf(orders, last.id).items)


\* C12: after deleteOrder succeeded the order is absent from the backend and
\* from the in-memory orders: in local mode (where the saved copy follows the
\* in-memory orders) as soon as the call returns, in remote mode once the
\* DELETE notification has been delivered to the client.
C12_DeletedOrderAbsent ==
    /\ (last.op = "deleteOrder" /\ last.res = "ok" /\ isRealtime)
          => ~HasRow(dbOrders, last.id)
    /\ (last.op = "deleteOrder" /\ last.res = "ok" /\ ~isRealtime)
          => ~HasOrder(orders, last.id)
    /\ (last.op = "ordersSub" /\ last.res = "DELETE")
          => /\ ~HasRow(dbOrders, last.id)
             /\ ~HasOrder(orders, last.id)

\* The statuses the derivation rule yields.
DerivedStatuses == {"Pending", "Preparing", "Completed"}

\* The transitions of the order life cycle.
LegalStatusChange(from, to) ==
    \/ to = from
    \/ from \in DerivedStatuses /\ to \in DerivedStatuses
    \/ from = "Completed" /\ to = "Picked Up"
    \/ ~Terminal(from) /\ to = "Cancelled"

\* C13: every step changes the status of a stored order by a legal
\* transition only (a derivation step among Pending, Preparing and Completed,
\* Completed to Picked Up, or a status other than Cancelled and Picked Up to
\* Cancelled); in particular a Cancelled order keeps its status until it is
\* deleted.
C13_LegalStatusChanges ==
    [][\A id \in OrderIds :
          (HasOrder(orders, id) /\ HasOrder(orders', id))
             => LegalStatusChange(OrderOf(orders, id).status,
                                  OrderOf(orders', id).status)]_vars

\* The price the pricing rule names for quantity q of an item: q units at
\* the base price without an enabled bundle, otherwise every full group of
\* buyQuantity units at the bundle price and the rest at the base price.
RulePrice(item, q) ==
    IF ~item.bundle.enabled THEN item.basePrice * q
    ELSE LET b == item.bundle.buyQuantity
             full == CHOOSE f \in 0..q : \E r \in 0..(b - 1) : q = f * b + r
         IN  full * item.bundle.bundlePrice + (q - full * b) * item.basePrice

\* The rule's price of the quantity of menu item k in a list of lines.
RuleLinePrice(items, k) ==
    IF Find(items, k) = 0 THEN 0
    ELSE RulePrice(items[Find(items, k)], items[Find(items, k)].quantity)

RECURSIVE RuleTotal(_, _)
RuleTotal(items, ids) ==
    IF ids = {} THEN 0
    ELSE LET k == CHOOSE x \in ids : TRUE
         IN  RuleLinePrice(items, k) + RuleTotal(items, ids \ {k})

\* Buy 3 for 50000 at base price 20000: the totals of 0, 2, 3, 5 and 6 units.
CroissantTotals == (0 :> 0) @@ (2 :> 40000) @@ (3 :> 50000) @@ (5 :> 90000) @@ (6 :> 100000)

\* C14: for every menu item and every quantity q >= 0, calculateItemTotal is
\* basePrice * q without an enabled bundle and floor(q / b) * bundlePrice +
\* (q mod b) * basePrice with one (0, 40000, 50000, 90000, 100000 for 0, 2,
\* 3, 5, 6 Croissants); the cart total, and the total of the order created
\* from a cart, is the sum of calculateItemTotal over the lines.
C14_PricingRule ==
    /\ \A m \in DOMAIN menu, q \in 0..MaxPricedQty :
          calculateItemTotal(menu[m], q) = RulePrice(menu[m], q)
    /\ \A q \in DOMAIN CroissantTotals :
          calculateItemTotal(Croissant, q) = CroissantTotals[q]
    /\ \A i \in 1..Len(cart) :
          calculateItemTotal(cart[i], cart[i].quantity)
             = RulePrice(menu[cart[i].id], cart[i].quantity)
    /\ cartTotal = RuleTotal(cart, DOMAIN menu)
    /\ \A i \in 1..Len(orders) :
          orders[i].total = RuleTotal(orders[i].items, DOMAIN menu)

\* C14 witness: an order of five Croissants and two Espressos has been
\* created with total 90000 + 50000.
C14_Witness ==
    /\ last.op = "createOrder"
    /\ Len(orders) = 1
    /\ QtyOf(orders[1].items, "3") = 5
    /\ QtyOf(orders[1].items, "1") = 2
    /\ orders[1].total = 140000

\* The rows of the line-item projection that belong to one order.
RowsOfOrder(rows, id) == {i \in 1..Len(rows) : rows[i].order_id = id}

\* The projection holds exactly one row per line of items for the order,
\* with the line's menu item id and quantity, and no other row for it.
ProjectionHasLines(rows, id, items) ==
    /\ Cardinality(RowsOfOrder(rows, id)) = Len(items)
    /\ \A j \in 1..Len(items) :
          Cardinality({i \in RowsOfOrder(rows, id) :
                          /\ rows[i].menu_item_id = items[j].id
                          /\ rows[i].quantity = items[j].quantity}) = 1

\* C15: in remote mode, when createOrder has succeeded, the line-item
\* projection holds exactly one row per line of the created order, keyed by
\* the new order's id, with the line's menu item id and quantity, and the
\* stored total is the cart total.
C15_CreateWritesProjection ==
    [][(last'.op = "createOrder" /\ last'.step = "reply" /\ last'.res = "ok")
       => /\ HasRow(dbOrders', last'.id)
          /\ RowOf(dbOrders', last'.id).total = ItemsTotal(inflight.data.items)
          /\ RowOf(dbOrders', last'.id).items = inflight.data.items
          /\ ProjectionHasLines(dbOrderItems', last'.id, inflight.data.items)]_vars

\* The projection rows of the order match the lines of items one-to-one in
\* menu item id, quantity and prepared flag.
ProjectionInSync(rows, id, items) ==
    /\ Cardinality(RowsOfOrder(rows, id)) = Len(items)
    /\ \A j \in 1..Len(items) :
          Cardinality({i \in RowsOfOrder(rows, id) :
                          /\ rows[i].menu_item_id = items[j].id
                          /\ rows[i].quantity = items[j].quantity
                          /\ rows[i].is_prepared = items[j].isPrepared}) = 1

\* C16: in remote mode, after every successful write that changes an order's
\* items (updateOrder of an edit save, toggleOrderItemPrepared), the
\* projection rows of the order match the items stored in the order's row
\* one-to-one in menu item id, quantity and prepared flag.
C16_ProjectionInSync ==
    [][(/\ last'.op \in {"updateOrder", "toggleOrderItemPrepared"}
        /\ last'.step = "reply"
        /\ last'.res = "ok"
        /\ HasRow(dbOrders', last'.id))
       => ProjectionInSync(dbOrderItems', last'.id, RowOf(dbOrders', last'.id).items)]_vars

\* Sequence a is the beginning of sequence b.
IsPrefix(a, b) == Len(a) <= Len(b) /\ SubSeq(b, 1, Len(a)) = a

\* C17: editHistory is append-only.  When an edit save has succeeded (the
\* call in local mode, the reply of the order write in remote mode) the
\* order's history is the history before the save plus exactly one entry;
\* and while no edit save is awaiting its reply, no step (operation or change
\* notification) removes or replaces an entry of a stored order.
C17_EditHistoryAppendOnly ==
    [][/\ (Idle \/ inflight.op # "updateOrder")
          => \A id \in OrderIds :
                (HasOrder(orders, id) /\ HasOrder(orders', id))
                   => IsPrefix(OrderOf(orders, id).editHistory,
                               OrderOf(orders', id).editHistory)
       /\ (Called("updateOrder") /\ last'.res = "ok" /\ HasOrder(orders, last'.id))
             => /\ IsPrefix(Before.editHistory, After.editHistory)
                /\ Len(After.editHistory) = Len(Before.editHistory) + 1
       /\ (/\ last'.op = "updateOrder" /\ last'.step = "reply" /\ last'.res = "ok"
           /\ inflight.old # NoOrder /\ HasOrder(orders', last'.id))
             => /\ IsPrefix(inflight.old.editHistory, After.editHistory)
                /\ Len(After.editHistory) = Len(inflight.old.editHistory) + 1]_vars

\* Every stock write the step just taken issued is stored in the backend.
AllStockWritesStored ==
    \A w \in last'.stockWrites : dbMenu'[w[1]].stock = Some(w[2])

\* C18: in remote mode no order's consumption is lost: when createOrder has
\* succeeded and its stock writes are stored, the backend stock of every
\* stock-tracking menu item is the backend stock before the order minus the
\* ordered quantity, so that after any sequence of orders the stock is the
\* initial stock minus the sum of the ordered quantities.
C18_NoLostStockUpdate ==
    [][(/\ last'.op = "createOrder" /\ last'.step = "reply" /\ last'.res = "ok"
        /\ AllStockWritesStored)
       => \A k \in DOMAIN dbMenu :
             dbMenu[k].stock # Undefined
                => dbMenu'[k].stock
                      = Some(Val(dbMenu[k].stock) - QtyOf(inflight.data.items, k))]_vars

\* C19: in remote mode, once the backend write of toggleOrderItemPrepared has
\* failed and no notification is pending, the in-memory order carries the
\* backend's items (hence their prepared flags) and the backend's status.
C19_FailedToggleRolledBack ==
    (/\ last.op = "toggleOrderItemPrepared"
     /\ last.step = "reply"
     /\ last.res = "fail"
     /\ orderNotifs = <<>>
     /\ HasOrder(orders, last.id)
     /\ HasRow(dbOrders, last.id))
    => /\ OrderOf(orders, last.id).items = RowOf(dbOrders, last.id).items
       /\ OrderOf(orders, last.id).status = RowOf(dbOrders, last.id).status

\* The items and the status of an order agree: a status of the derivation
\* rule is the one derived from the prepared flags of the items.
StatusFollowsFlags(items, status) ==
    status \in DerivedStatuses => status = DerivedStatus(items)

\* C20: toggleOrderItemPrepared changes the flipped flag and the recomputed
\* status together: in no reachable state does an in-memory order or a
\* backend row hold items that reflect a toggle with a status derived from
\* the flags before it, or the other way round.
C20_FlagsAndStatusTogether ==
    /\ \A i \in 1..Len(orders) : StatusFollowsFlags(orders[i].items, orders[i].status)
    /\ \A i \in 1..Len(dbOrders) : StatusFollowsFlags(dbOrders[i].items, dbOrders[i].status)

\* C20 witness: the write of a toggle has just stored a row of two lines,
\* one of them prepared, with status Preparing, while the in-memory order
\* holds the same items and status.
C20_Witness ==
    /\ last.op = "toggleOrderItemPrepared"
    /\ last.step = "reply"
    /\ last.res = "ok"
    /\ HasRow(dbOrders, last.id)
    /\ HasOrder(orders, last.id)
    /\ Len(RowOf(dbOrders, last.id).items) = 2
    /\ PreparedCount(RowOf(dbOrders, last.id).items) = 1
    /\ RowOf(dbOrders, last.id).status = "Preparing"
    /\ OrderOf(orders, last.id).items = RowOf(dbOrders, last.id).items
    /\ OrderOf(orders, last.id).status = "Preparing"

\* The step just taken is the part of store operation op that precedes its
\* backend write (remote mode).
Issued(op) == Called(op) /\ last'.res = "pending"

\* C21: in remote mode updateOrder, updateOrderStatus,
\* updateOrderPaymentStatus and toggleOrderItemPrepared change the in-memory
\* order before the backend write is made: when the call has been issued
\* and its write is still in flight, the in-memory order shows the new value
\* and the backend is as it was.
C21_OptimisticUpdate ==
    [][(/\ \/ Issued("updateOrder")
           \/ Issued("updateOrderStatus")
           \/ Issued("updateOrderPaymentStatus")
           \/ Issued("toggleOrderItemPrepared")
        /\ HasOrder(orders, last'.id))
       => /\ inflight' # NoReq
          /\ inflight'.op = last'.op
          /\ dbOrders' = dbOrders
          /\ dbOrderItems' = dbOrderItems
          /\ dbMenu' = dbMenu
          /\ HasOrder(orders', last'.id)
          /\ Issued("updateOrderStatus") => After.status = inflight'.data
          /\ Issued("updateOrderPaymentStatus") => After.paymentStatus = inflight'.data
          /\ Issued("toggleOrderItemPrepared")
                => /\ After.items = inflight'.data.items
                   /\ After.status = inflight'.data.status
          /\ Issued("updateOrder")
                => /\ After.items = inflight'.data.items
                   /\ After.total = inflight'.data.total
                   /\ After.status = inflight'.data.status
                   /\ After.note = inflight'.data.note]_vars

\* C21 witness: the write of a cancellation is in flight; the in-memory
\* order is Cancelled while the backend row is not.
C21_Witness ==
    /\ inflight # NoReq
    /\ inflight.op = "updateOrderStatus"
    /\ inflight.data = "Cancelled"
    /\ HasOrder(orders, inflight.id)
    /\ HasRow(dbOrders, inflight.id)
    /\ OrderOf(orders, inflight.id).status = "Cancelled"
    /\ RowOf(dbOrders, inflight.id).status # "Cancelled"

\* next is prev with one more of menu item id: the line of that id has its
\* quantity raised by exactly 1 and no line is added, or, when there is no such
\* line, one line of quantity 1 is appended; every other line is the same.
AddedOne(prev, next, id) ==
    IF Find(prev, id) # 0
    THEN /\ Len(next) = Len(prev)
         /\ \A i \in 1..Len(prev) :
                IF prev[i].id = id
                THEN /\ next[i].id = id
                     /\ next[i].quantity = prev[i].quantity + 1
                     /\ next[i].basePrice = prev[i].basePrice
                     /\ next[i].bundle = prev[i].bundle
                ELSE next[i] = prev[i]
    ELSE /\ Len(next) = Len(prev) + 1
         /\ SubSeq(next, 1, Len(prev)) = prev
         /\ next[Len(next)].id = id
         /\ next[Len(next)].quantity = 1

\* C22: adding a menu item to the cashier's cart or to the edit draft raises
\* the quantity of the line with that id by exactly 1 without adding a line,
\* or appends one line of quantity 1 at the end when there is none; all other
\* lines are unchanged; in the edit draft the affected line is unprepared
\* afterwards.
C22_AddIncrementsOrAppends ==
    \A m \in DOMAIN menu :
        /\ AddedOne(cart, addToCart(cart, menu[m]), m)
        /\ isEditing =>
              LET next == handleAddItem(editedItems, menu[m])
              IN  /\ AddedOne(editedItems, next, m)
                  /\ \A i \in 1..Len(next) :
                        next[i].id = m => ~next[i].isPrepared

\* C22 witness: the draft of an order with two lines, the first prepared in
\* the order, after one more of the first line's item was added: quantity
\* one higher, flag reset, second line as in the order.
C22_Witness ==
    /\ PanelOpen
    /\ isEditing
    /\ Len(order.items) = 2
    /\ Len(editedItems) = 2
    /\ order.items[1].isPrepared
    /\ editedItems[1].quantity = order.items[1].quantity + 1
    /\ ~editedItems[1].isPrepared
    /\ editedItems[2] = order.items[2]

\* The deltas the draft's - and + buttons pass to handleUpdateQuantity.
QuantityDeltas == {-1, 1}

\* C23: in the edit draft updateQuantity(itemId, delta) sets the line's
\* quantity to max(1, current + delta); the line becomes unprepared when
\* delta > 0 and keeps its flag when delta < 0; no other line is modified and
\* no line is removed.
C23_DraftQuantityFloor ==
    isEditing =>
        \A k \in 1..Len(editedItems), delta \in QuantityDeltas :
            LET next == handleUpdateQuantity(editedItems, editedItems[k].id, delta)
            IN  /\ Len(next) = Len(editedItems)
                /\ \A i \in 1..Len(next) :
                      IF editedItems[i].id = editedItems[k].id
                      THEN /\ next[i].id = editedItems[i].id
                           /\ next[i].quantity =
                                 Max(1, editedItems[i].quantity + delta)
                           /\ next[i].basePrice = editedItems[i].basePrice
                           /\ next[i].bundle = editedItems[i].bundle
                           /\ delta > 0 => ~next[i].isPrepared
                           /\ delta < 0 => next[i].isPrepared = editedItems[i].isPrepared
                      ELSE next[i] = editedItems[i]

\* C23 witness: the draft of an order whose first line was prepared with
\* quantity 2, after that line was decremented: quantity 1 and still
\* prepared (a further decrement stays at 1).
C23_Witness ==
    /\ PanelOpen
    /\ isEditing
    /\ Len(order.items) = 2
    /\ Len(editedItems) = 2
    /\ order.items[1].isPrepared
    /\ order.items[1].quantity = 2
    /\ editedItems[1].quantity = 1
    /\ editedItems[1].isPrepared
    /\ editedItems[2] = order.items[2]

\* Every line of items has a quantity of at least 1.
QuantitiesPositive(items) == \A i \in 1..Len(items) : items[i].quantity >= 1

\* C24: every line in the cashier's cart, in the edit draft and in a stored
\* order (in memory or in the backend) has quantity >= 1, and decrementing a
\* cart line of quantity 1 removes that line and leaves the others.
C24_QuantitiesPositive ==
    /\ QuantitiesPositive(cart)
    /\ QuantitiesPositive(editedItems)
    /\ \A i \in 1..Len(orders) : QuantitiesPositive(orders[i].items)
    /\ \A i \in 1..Len(dbOrders) : QuantitiesPositive(dbOrders[i].items)
    /\ \A k \in 1..Len(cart) :
          cart[k].quantity = 1 =>
              updateQuantity(cart, cart[k].id, -1) = FilterOut(cart, cart[k].id)

\* C24 witness: a two-line draft after a decrement at the floor's edge (an
\* order line of quantity 2 now at 1) next to a line of quantity 2.
C24_Witness ==
    /\ PanelOpen
    /\ isEditing
    /\ Len(order.items) = 2
    /\ Len(editedItems) = 2
    /\ order.items[1].quantity = 2
    /\ editedItems[1].quantity = 1
    /\ editedItems[2].quantity = 2

\* Order id is Cancelled: in the backend in remote mode, in memory otherwise.
IsCancelled(id) ==
    IF isRealtime
    THEN HasRow(dbOrders, id) /\ RowOf(dbOrders, id).status = "Cancelled"
    ELSE HasOrder(orders, id) /\ OrderOf(orders, id).status = "Cancelled"

\* C25: a toggle request on a Cancelled order changes no isPrepared flag of
\* the order, and a Cancelled order is not marked Picked Up.
C25_NoToggleOnCancelled ==
    [][/\ (Called("toggleOrderItemPrepared") /\ IsCancelled(last'.id)
            /\ HasOrder(orders, last'.id))
          => After.items = Before.items
       /\ (Called("updateOrderStatus") /\ IsCancelled(last'.id)
            /\ HasOrder(orders, last'.id))
          => After.status # "Picked Up"]_vars

\* Both clients are connected, no write is in flight and every change
\* notification has been delivered.
Quiescent ==
    /\ peer.online
    /\ Idle
    /\ peer.inflight = NoReq
    /\ orderNotifs = <<>>
    /\ peer.notifs = <<>>

\* The client whose orders are os holds the order of row, and every copy it
\* holds equals the row.
InSyncWith(os, row) ==
    /\ HasOrder(os, row.id)
    /\ \A i \in 1..Len(os) : os[i].id = row.id => os[i] = mapDbOrder(row)

PersistedIsInMemory ==
    /\ loadLocal(localStorage).menu = menu
    /\ loadLocal(localStorage).orders = orders

MenuEditStep ==
    last'.op \in {"addMenuItem", "updateMenuItem", "deleteMenuItem", "menuSub"}

\* C28: addMenuItem, updateMenuItem and deleteMenuItem leave every stored
\* order (items with their snapshot basePrice and bundle, total, status)
\* unchanged, in memory and in the backend, and write no stock.
C28_MenuEditsKeepOrders ==
    [][MenuEditStep
       => /\ orders' = orders
          /\ dbOrders' = dbOrders
          /\ dbOrderItems' = dbOrderItems
          /\ orderNotifs' = orderNotifs
          /\ last'.stockWrites = {}]_vars

\* C28 witness: local mode, Iced Latte was just deleted from the menu; the
\* saved order still holds its Iced Latte line and its total.
C28_Witness ==
    /\ ~isRealtime
    /\ last.op = "deleteMenuItem"
    /\ "2" \notin DOMAIN menu
    /\ Len(orders) = 1
    /\ orders[1].items = SavedOrder.items
    /\ orders[1].total = SavedOrder.total

\* The step just taken is updateOrder's part after its order write
\* succeeded.
UpdateWritten ==
    /\ last'.op = "updateOrder"
    /\ last'.step = "reply"
    /\ last'.res = "ok"

\* In that step the projection rebuild or a stock write failed.
SecondaryWriteFailed ==
    \/ ~ProjectionInSync(dbOrderItems', inflight.id, inflight.data.items)
    \/ ~AllStockWritesStored

\* C29: in remote mode, when updateOrder's order write has succeeded and the
\* rebuild of the line-item projection or a stock write fails, the order is
\* not rolled back (in memory it is as the reply found it, the backend row
\* holds the updated fields) and the call returns true (the panel that
\* issued it leaves edit mode).
C29_SecondaryFailuresIgnored ==
    [][(UpdateWritten /\ SecondaryWriteFailed /\ HasRow(dbOrders, inflight.id))
       => /\ orders' = orders
          /\ RowOf(dbOrders', inflight.id) =
                applyDbUpdates(RowOf(dbOrders, inflight.id), inflight.data)
          /\ inflight.panel => ~isEditing' /\ ~isSaving'
          /\ isEditing' => isEditing]_vars

\* C29 witness: an edit save has returned; the order's row and the in-memory
\* order hold the new items, the panel has left edit mode, and the
\* projection does not match the new items.
C29_Witness ==
    /\ last.op = "updateOrder"
    /\ last.step = "reply"
    /\ last.res = "ok"
    /\ HasRow(dbOrders, last.id)
    /\ HasOrder(orders, last.id)
    /\ RowOf(dbOrders, last.id).items # SavedOrder.items
    /\ OrderOf(orders, last.id).items = RowOf(dbOrders, last.id).items
    /\ ~ProjectionInSync(dbOrderItems, last.id, RowOf(dbOrders, last.id).items)
    /\ selectedOrderId = last.id
    /\ ~isEditing

\* The step just taken belongs to one of the four order operations (its
\* call, or the backend's reply) for an id the in-memory orders do not hold.
UnknownIdStep ==
    /\ last'.op \in {"updateOrder", "updateOrderStatus", "updateOrderPaymentStatus",
                     "toggleOrderItemPrepared"}
    /\ last'.step \in {"call", "reply"}
    /\ ~HasOrder(orders, last'.id)

\* No stock changed, in memory or in the backend.
StockUnchanged ==
    /\ DOMAIN menu' = DOMAIN menu
    /\ \A k \in DOMAIN menu : menu'[k].stock = menu[k].stock
    /\ DOMAIN dbMenu' = DOMAIN dbMenu
    /\ \A k \in DOMAIN dbMenu : dbMenu'[k].stock = dbMenu[k].stock
    /\ last'.stockWrites = {}

\* C30: updateOrder, updateOrderStatus, updateOrderPaymentStatus and
\* toggleOrderItemPrepared with an id that is not in the in-memory
\* orders leave the in-memory orders and every stock unchanged.
C30_UnknownIdNoOp ==
    [][UnknownIdStep => orders' = orders /\ StockUnchanged]_vars

---------------------------------------------------------------------------
(* Remote mode: an order is created while a saved order is edited *)

NextRefetch ==
    \/ AddToCart
    \/ ConfirmOrder
    \/ SetActiveView
    \/ SelectOrder
    \/ StartEdit
    \/ DraftUpdateQuantity
    \/ Save
    \/ ReplyCreateOrder
    \/ ReplyUpdateOrderFailed
    \/ ReplyUpdateOrder
    \/ DeliverOrderNotif
    \/ DeliverMenuNotif

SpecRefetch == InitPrepare /\ [][NextRefetch]_vars

---------------------------------------------------------------------------
(* Stock conservation in local mode *)

\* The quantity of menu item k over all lines of an order's items.
RECURSIVE LineQty(_, _)
LineQty(items, k) ==
    IF items = <<>> THEN 0
    ELSE (IF Head(items).id = k THEN Head(items).quantity ELSE 0)
         + LineQty(Tail(items), k)

\* The quantity of menu item k over all orders of a collection.
RECURSIVE OrderedQty(_, _)
OrderedQty(os, k) ==
    IF os = <<>> THEN 0
    ELSE LineQty(Head(os).items, k) + OrderedQty(Tail(os), k)

\* The menu items whose stock is tracked before and after the step.
Tracked ==
    {k \in DOMAIN menu \cap DOMAIN menu' :
        menu[k].stock # Undefined /\ menu'[k].stock # Undefined}

\* C31: in local mode every createOrder call and every edit save (updateOrder
\* with items) keeps, for every stock-tracking menu item, the sum of its stock
\* and of its quantity over all orders of the collection: what the step takes
\* from the stock it adds to the orders and the reverse, the edit's difference
\* being taken against the order as it was before the edit.
C31_StockConservation ==
    [][(~isRealtime /\ (Called("createOrder") \/ Called("updateOrder")))
        => \A k \in Tracked :
              Val(menu'[k].stock) + OrderedQty(orders', k)
                  = Val(menu[k].stock) + OrderedQty(orders, k)]_vars

\* An edit save of a created order has changed the quantity of a stock-tracking
\* menu item and, with it, the item's stock: the stock and the ordered
\* quantity still add up to the initial stock of 30.
C31_Witness ==
    /\ ~isRealtime
    /\ last.op = "updateOrder"
    /\ nextId > 1
    /\ menu["2"].stock # DEFAULT_MENU["2"].stock
    /\ OrderedQty(orders, "2") = MaxQty
    /\ Val(menu["2"].stock) + OrderedQty(orders, "2") = Val(DEFAULT_MENU["2"].stock)

---------------------------------------------------------------------------
(* Order ids in memory *)

UniqueIds(os) ==
    \A i, j \in 1..Len(os) : os[i].id = os[j].id => i = j

\* C32: in remote mode the in-memory orders never hold two entries with the
\* same order id, whatever the order of updateOrder's re-fetch after a failed
\* write and the delivery of INSERT notifications.
C32_NoDuplicateIds ==
    isRealtime => UniqueIds(orders)

---------------------------------------------------------------------------
(* The cart after a failed confirm *)

\* The cart holds every line of the items with at least its quantity.
CartHolds(c, items) ==
    \A i \in 1..Len(items) : QtyOf(c, items[i].id) >= items[i].quantity

\* C33: the cart is cleared after a confirm only if the order was created:
\* when createOrder ends with the failure result, the cart still holds the
\* lines of the order that was not created.
C33_CartKeptOnFailure ==
    [][(last'.op = "createOrder" /\ last'.step = "reply" /\ last'.res = "fail")
        => CartHolds(cart', inflight.data.items)]_vars

---------------------------------------------------------------------------
(* The saving state of the edit panel *)

\* The step in which a handleSave of the panel finishes: it found no changes,
\* or its updateOrder resolved (at once in local mode, with the backend's
\* reply in remote mode).
SaveFinished ==
    \/ last'.op = "handleSave"
    \/ /\ last'.op = "updateOrder"
       /\ \/ last'.step = "reply" /\ inflight.panel
          \/ last'.step = "call" /\ ~isRealtime

\* C34: when handleSave finishes, on any path (success, backend failure, no
\* changes detected), isSaving is false.
C34_SavingStateLeft ==
    [][SaveFinished => ~isSaving']_vars

---------------------------------------------------------------------------
(* One line per menu item *)

UniqueLines(items) ==
    \A i, j \in 1..Len(items) : items[i].id = items[j].id => i = j

\* C35: the cashier cart and the edit draft hold at most one line per menu
\* item id after any sequence of add, quantity-change and remove operations,
\* and so does every order created or saved from them.
C35_OneLinePerItem ==
    /\ UniqueLines(cart)
    /\ UniqueLines(editedItems)
    /\ \A i \in 1..Len(orders) : UniqueLines(orders[i].items)

\* An order created from a cart and then saved from an edited draft holds two
\* lines of quantity 2, one per menu item: items were added or incremented
\* while already present in the cart or in the draft.
C35_Witness ==
    /\ last.op = "updateOrder"
    /\ Len(orders) = 1
    /\ Len(orders[1].items) = 2
    /\ \A i \in 1..2 : orders[1].items[i].quantity = 2
    /\ Len(orders[1].editHistory) = 1

---------------------------------------------------------------------------
(* No order without lines *)

\* C36: every stored order has at least one line item, in memory and in the
\* backend table: no order is created from an empty cart and no edit is saved
\* from an empty draft.
C36_OrdersHaveLines ==
    /\ \A i \in 1..Len(orders) : orders[i].items # <<>>
    /\ \A i \in 1..Len(dbOrders) : dbOrders[i].items # <<>>

\* The edit draft of a stored order was emptied with the remove buttons: the
\* Save Changes button is disabled and the order keeps its lines.
C36_Witness ==
    /\ PanelOpen
    /\ isEditing
    /\ editedItems = <<>>
    /\ order.items # <<>>

---------------------------------------------------------------------------
(* Local storage in remote mode *)

\* C37: the backend mode is fixed once the store has started, and when the
\* remote backend is configured no step of the store, the first effects run
\* at start-up included, writes the local 'menu items' or 'orders' storage.
C37_NoLocalWritesWhenRemote ==
    [][/\ page.effects # "none" => isRealtime' = isRealtime
       /\ page.configured => page'.storage = page.storage]_vars
=============================================================================
